---------------------------- MODULE Spec2Model ----------------------------
(***************************************************************************)
(* Persona-Chat sequenced real-time audio playback pipeline.               *)
(*                                                                         *)
(*   decodePCM16ToFloat32   client/replit_integrations/audio/audio-utils   *)
(*   SequenceBuffer,                                                       *)
(*   useAudioPlayback       client/replit_integrations/audio/              *)
(*                          useAudioPlayback                               *)
(*   useVoiceStream         client/replit_integrations/audio/              *)
(*                          useVoiceStream                                 *)
(*   RingBuffer,                                                           *)
(*   AudioPlaybackProcessor client/replit_integrations/audio/              *)
(*                          audio-playback-worklet.js                      *)
(*                                                                         *)
(* Text (JavaScript strings) is a sequence of one-character strings.  A    *)
(* float sample x is represented by the integer n with x = n / Scale, so   *)
(* that silence is 0 and sample equality is integer equality.              *)
(***************************************************************************)
EXTENDS Integers, Sequences, FiniteSets, TLC

(***************************************************************************)
(* Bounds of the model.                                                    *)
(***************************************************************************)
\* largest sequence number pushed to a SequenceBuffer
MaxSeq == 3
\* pushes to a SequenceBuffer between two resets
MaxPushes == 4
\* capacity handed to the RingBuffer constructor (24000 * 30 in the worklet)
InitialCapacity == 1
\* longest block of samples in one push / one audio message
MaxBlock == 2
\* most unread samples the environment lets accumulate in a RingBuffer
MaxBuffered == 3
\* longest output buffer handed to RingBuffer.pull
MaxPull == 3
\* samples pushed / output frames pulled that the history variables record
MaxHistory == 5
\* frames of one render quantum (the length of the channel given to process)
Quantum == 2
\* messages in flight on a message port
MaxQueue == 1
\* records the server writes to one response
MaxRecords == 3
\* text of the response the server has written ahead of the reader, in tokens
MaxUnread == 2
\* messages posted to the worklet and not yet delivered
MaxInFlight == 2
\* largest sequence number handed to pushSequencedAudio
MaxHookSeq == 1
\* payloads the SequenceBuffer of the hook holds back
MaxHeld == 2
\* the most calls the owner of the hook makes in one session
MaxCalls == 4
\* "ended" messages the history counts
MaxEnded == 2
\* 16-bit integers in a payload handed to the decoder on its own
MaxSamples == 2

(***************************************************************************)
(* Program constants.                                                      *)
(***************************************************************************)
\* float32[i] = pcm16[i] / 32768
Scale == 32768

(***************************************************************************)
(* Generic helpers.                                                        *)
(***************************************************************************)
Min(a, b) == IF a < b THEN a ELSE b

Range(s) == {s[i] : i \in 1..Len(s)}

IsPrefix(s, t) == Len(s) <= Len(t) /\ s = SubSeq(t, 1, Len(s))

\* all sequences over S of length lo..hi
SeqsOf(S, lo, hi) == UNION {[1..n -> S] : n \in lo..hi}

(***************************************************************************)
(* atob: forgiving base64 decoding of the platform, called by              *)
(* decodePCM16ToFloat32.  The result is [ok, bytes]; ok = FALSE is the     *)
(* InvalidCharacterError DOMException.                                     *)
(***************************************************************************)
B64Alphabet ==
    << "A","B","C","D","E","F","G","H","I","J","K","L","M","N","O","P",
       "Q","R","S","T","U","V","W","X","Y","Z","a","b","c","d","e","f",
       "g","h","i","j","k","l","m","n","o","p","q","r","s","t","u","v",
       "w","x","y","z","0","1","2","3","4","5","6","7","8","9","+","/" >>

B64Val(c) == (CHOOSE i \in 1..64 : B64Alphabet[i] = c) - 1

\* strip one or two trailing "=" when the length is a multiple of four
B64StripPadding(s) ==
    IF Len(s) > 0 /\ Len(s) % 4 = 0
    THEN IF s[Len(s)] = "=" /\ s[Len(s) - 1] = "="
         THEN SubSeq(s, 1, Len(s) - 2)
         ELSE IF s[Len(s)] = "="
              THEN SubSeq(s, 1, Len(s) - 1)
              ELSE s
    ELSE s

RECURSIVE B64Bytes(_)
\* bytes of a padding-free string of alphabet characters, four at a time
B64Bytes(s) ==
    IF Len(s) = 0 THEN << >>
    ELSE IF Len(s) = 2
    THEN LET n == B64Val(s[1]) * 64 + B64Val(s[2])
         IN  << n \div 16 >>
    ELSE IF Len(s) = 3
    THEN LET n == (B64Val(s[1]) * 64 + B64Val(s[2])) * 64 + B64Val(s[3])
         IN  << n \div 1024, (n \div 4) % 256 >>
    ELSE LET n == ((B64Val(s[1]) * 64 + B64Val(s[2])) * 64 + B64Val(s[3])) * 64
                  + B64Val(s[4])
         IN  << n \div 65536, (n \div 256) % 256, n % 256 >>
             \o B64Bytes(SubSeq(s, 5, Len(s)))

Atob(s) ==
    LET body == B64StripPadding(s)
    IN  IF Len(body) % 4 = 1 \/ \E i \in 1..Len(body) : body[i] \notin Range(B64Alphabet)
        THEN [ok |-> FALSE, bytes |-> << >>]
        ELSE [ok |-> TRUE, bytes |-> B64Bytes(body)]

\* an Int16At that reads the two bytes as an unsigned integer
Int16AtUnsigned(bytes, i) == bytes[2 * i - 1] + 256 * bytes[2 * i]

(***************************************************************************)
(* decodePCM16ToFloat32.  Result [ok, error, samples]: "InvalidCharacter"  *)
(* is the exception of atob, "RangeError" the one of                      *)
(* new Int16Array(bytes.buffer) on an odd number of bytes.  Int16Array     *)
(* reads the bytes in platform order, little-endian.                       *)
(***************************************************************************)
Int16At(bytes, i) ==
    LET u == bytes[2 * i - 1] + 256 * bytes[2 * i]
    IN  IF u >= 32768 THEN u - 65536 ELSE u

decodePCM16ToFloat32(base64Audio) ==
    LET raw == Atob(base64Audio)
    IN  IF ~raw.ok
        THEN [ok |-> FALSE, error |-> "InvalidCharacter", samples |-> << >>]
        ELSE IF Len(raw.bytes) % 2 # 0
        THEN [ok |-> FALSE, error |-> "RangeError", samples |-> << >>]
        ELSE [ok |-> TRUE, error |-> "none",
              samples |-> [i \in 1..(Len(raw.bytes) \div 2) |-> Int16At(raw.bytes, i)]]

(***************************************************************************)
(* Payloads of the model: base64 texts.                                    *)
(***************************************************************************)
\* bytes 01 00: the sample 1/32768
PayloadA == << "A", "Q", "A", "=" >>
\* bytes 02 00: the sample 2/32768
PayloadB == << "A", "g", "A", "=" >>
\* not base64: "!" is outside the alphabet
PayloadBad == << "A", "!", "A", "=" >>
\* well-formed base64 of a single byte
PayloadOdd == << "A", "Q", "=", "=" >>


(***************************************************************************)
(* State.                                                                  *)
(***************************************************************************)
VARIABLES
    \* UI context: the SequenceBuffer object, [pending, nextSeq]
    seqBuffer,
    \* history: the pushes since the last reset, [seq, data, next] with next
    \* the value of nextSeq when push was called
    pushLog,
    \* history: the lists returned by push since the last reset, concatenated
    released,
    \* audio context: the RingBuffer object,
    \* [capacity, buffer, readIndex, writeIndex, availableData]
    ringBuffer,
    \* history: the samples pushed since construction or the last clear
    pushed,
    \* history: the output buffers filled by pull since then, concatenated
    pulled,
    \* history: some pull since then asked for more than was available
    starved,
    \* history: the value returned by the last pull since then
    pullReturned,
    \* history: the last growth since then, [from, wrapped] with from the
    \* capacity before it (0 when there was none) and wrapped telling that
    \* the unread data ran over the end of the storage at that moment
    lastGrow,
    \* audio context: AudioPlaybackProcessor.isPlaying
    isPlaying,
    \* audio context: AudioPlaybackProcessor.streamComplete
    streamComplete,
    \* audio context: the channel as the last process() call left it
    channel,
    \* history: the unread samples when the last streamComplete message
    \* arrived at a playing processor (0 when none is outstanding)
    completeOver,
    \* the port, worklet to UI: messages posted and not yet delivered
    toUI,
    \* the port, UI to worklet: messages posted and not yet delivered
    toWorklet,
    \* UI context: the PlaybackState of useAudioPlayback
    state,
    \* UI context: readyRef.current (workletRef.current is set with it)
    readyRef,
    \* history: the number of calls made on the hook by its owner
    uiCalls,
    \* history: the samples of the audio messages the hook has posted since
    \* the last call of clear, in the order the fragments were handed to it
    arrived,
    \* history: the non-zero frames process() has written to the channel
    \* since the processor last received a clear message
    rendered,
    \* history: the number of payloads the SequenceBuffer held when clear
    \* was last called
    dropped,
    \* history: the arguments [seq, data] of the last call of
    \* pushSequencedAudio that reached the SequenceBuffer since the last call
    \* of clear, as a list of at most one element
    lastPush,
    \* history: the handler of the processor that ran last: the type of the
    \* message received, "process" for a call of process() with an output
    \* channel, "processNoOutput" for one without, "none" at the start
    lastStep,
    \* history: the types of the messages received since "ended" was last
    \* posted, or since construction
    sinceEnded,
    \* history: the number of "ended" messages posted, up to MaxEnded
    endedPosts,
    \* history: since the last clear, stop or "ended", process() has found
    \* the ring buffer empty while playing with streamComplete unset
    ranDry,
    \* history: the samples that were unread at the last stop message and
    \* are still unread, oldest first
    heldAtStop,
    \* a caller of decodePCM16ToFloat32: the argument of the call, as
    \* [text, wellFormed, ints, odd], with text the base64 payload, ints the
    \* 16-bit integers it encodes and odd whether a lone byte follows them
    decodeInput,
    \* a caller of decodePCM16ToFloat32: what the call returned or threw,
    \* NotCalled before the call
    decodeResult,
    \* UI context: where the call of streamVoiceResponse stands: "idle",
    \* "awaitingResponse", "streaming", "resolved" or "rejected"
    pc,
    \* what fetch produced: "none", "ok", "notOk", "noBody", "networkError"
    response,
    \* the response body: text written by the server and not yet read
    wire,
    \* the server has ended the response
    serverClosed,
    \* the text the server wrote after its last newline before it ended the
    \* response, << >> when every line it wrote was terminated
    cutShort,
    \* UI context: the local `buffer` of streamVoiceResponse
    lineBuffer,
    \* UI context: the local `fullTranscript` of streamVoiceResponse
    fullTranscript,
    \* history: the lines the server wrote, in order
    sent,
    \* history: the number of complete lines the read loop has gone through
    linesSeen,
    \* history: the callbacks invoked and the audio and streamComplete
    \* messages posted by streamVoiceResponse, [fn, rec, arg, full] with rec
    \* the number of the line being processed
    calls

seqVars == << seqBuffer, pushLog, released >>
ringVars == << ringBuffer, pushed, pulled, starved, pullReturned, lastGrow >>
procVars == << isPlaying, streamComplete, channel, completeOver, toUI >>
hookVars == << toWorklet, state, readyRef, uiCalls >>
decodeVars == << decodeInput, decodeResult >>
procHist == << lastStep, sinceEnded, endedPosts, ranDry, heldAtStop >>
playVars == << arrived, rendered, lastPush, dropped >>
streamVars ==
    << pc, response, wire, serverClosed, cutShort, lineBuffer, fullTranscript, sent,
       linesSeen, calls >>

(***************************************************************************)
(* class SequenceBuffer.  pending is a Map<number, string[]>: a function   *)
(* whose domain is the set of keys.                                        *)
(***************************************************************************)
SequenceBufferNew == [pending |-> << >>, nextSeq |-> 0]

MapDelete(m, k) == [x \in (DOMAIN m) \ {k} |-> m[x]]

\* a store that replaces what the key holds
SeqStoreOverwrites(pending, seq, data) ==
    IF seq \in DOMAIN pending
    THEN [pending EXCEPT ![seq] = << data >>]
    ELSE (seq :> << data >>) @@ pending

\* if (!pending.has(seq)) pending.set(seq, []); pending.get(seq).push(data)
SeqStore(pending, seq, data) ==
    IF seq \in DOMAIN pending
    THEN [pending EXCEPT ![seq] = Append(@, data)]
    ELSE (seq :> << data >>) @@ pending

RECURSIVE SeqDrainLoop(_, _, _)
\* while (pending.has(nextSeq)) { ready.push(...); pending.delete; nextSeq++ }
SeqDrainLoop(pending, nextSeq, ready) ==
    IF nextSeq \in DOMAIN pending
    THEN SeqDrainLoop(MapDelete(pending, nextSeq), nextSeq + 1,
                      ready \o pending[nextSeq])
    ELSE [pending |-> pending, nextSeq |-> nextSeq, ready |-> ready]

\* a drain that releases at most one sequence number
SeqDrainOnce(pending, nextSeq, ready) ==
    IF nextSeq \in DOMAIN pending
    THEN [pending |-> MapDelete(pending, nextSeq), nextSeq |-> nextSeq + 1,
          ready |-> ready \o pending[nextSeq]]
    ELSE [pending |-> pending, nextSeq |-> nextSeq, ready |-> ready]

RECURSIVE SeqDrainKeepKey(_, _, _)
\* a drain that releases the sequence numbers and keeps their keys
SeqDrainKeepKey(pending, nextSeq, ready) ==
    IF nextSeq \in DOMAIN pending
    THEN SeqDrainKeepKey(pending, nextSeq + 1, ready \o pending[nextSeq])
    ELSE [pending |-> pending, nextSeq |-> nextSeq, ready |-> ready]

RECURSIVE SeqDrainPrepends(_, _, _)
\* a drain that puts each sequence number in front of those before it
SeqDrainPrepends(pending, nextSeq, ready) ==
    IF nextSeq \in DOMAIN pending
    THEN SeqDrainPrepends(MapDelete(pending, nextSeq), nextSeq + 1,
                          pending[nextSeq] \o ready)
    ELSE [pending |-> pending, nextSeq |-> nextSeq, ready |-> ready]

SeqDrain(pending, nextSeq, ready) == SeqDrainLoop(pending, nextSeq, ready)

\* a push that turns away a sequence number nextSeq has passed
SequenceBufferPushRejectsLate(sb, seq, data) ==
    IF seq < sb.nextSeq
    THEN [buf |-> sb, ready |-> << >>]
    ELSE LET d == SeqDrain(SeqStore(sb.pending, seq, data), sb.nextSeq, << >>)
         IN  [buf |-> [pending |-> d.pending, nextSeq |-> d.nextSeq],
              ready |-> d.ready]

\* push(seq, data): the buffer after the call and the list returned
SequenceBufferPush(sb, seq, data) ==
    LET d == SeqDrain(SeqStore(sb.pending, seq, data), sb.nextSeq, << >>)
    IN  [buf |-> [pending |-> d.pending, nextSeq |-> d.nextSeq],
         ready |-> d.ready]

SequenceBufferReset(sb) == [pending |-> << >>, nextSeq |-> 0]

(***************************************************************************)
(* class RingBuffer.  buffer is a Float32Array: a function on              *)
(* 0..capacity-1, zero-filled when allocated.                              *)
(***************************************************************************)
RingBufferNew(initialCapacity) ==
    [capacity |-> initialCapacity,
     buffer |-> [i \in 0..(initialCapacity - 1) |-> 0],
     readIndex |-> 0, writeIndex |-> 0, availableData |-> 0]

\* a grow that copies the storage as it lies, without unwrapping it
RingGrowNoUnwrap(rb) ==
    LET newCapacity == rb.capacity * 2
    IN  [capacity |-> newCapacity,
         buffer |-> [i \in 0..(newCapacity - 1) |->
                        IF i < rb.capacity THEN rb.buffer[i] ELSE 0],
         readIndex |-> 0,
         writeIndex |-> rb.availableData,
         availableData |-> rb.availableData]

\* a grow that leaves writeIndex where it is
RingGrowKeepsWrite(rb) ==
    LET newCapacity == rb.capacity * 2
    IN  [capacity |-> newCapacity,
         buffer |-> [i \in 0..(newCapacity - 1) |->
                        IF i < rb.availableData
                        THEN rb.buffer[(rb.readIndex + i) % rb.capacity]
                        ELSE 0],
         readIndex |-> 0,
         writeIndex |-> rb.writeIndex,
         availableData |-> rb.availableData]

\* grow()
RingGrow(rb) ==
    LET newCapacity == rb.capacity * 2
    IN  [capacity |-> newCapacity,
         buffer |-> [i \in 0..(newCapacity - 1) |->
                        IF i < rb.availableData
                        THEN rb.buffer[(rb.readIndex + i) % rb.capacity]
                        ELSE 0],
         readIndex |-> 0,
         writeIndex |-> rb.availableData,
         availableData |-> rb.availableData]

\* a push that grows at most once
RingGrowOnce(rb, len) ==
    IF rb.availableData + len > rb.capacity THEN RingGrow(rb) ELSE rb

RECURSIVE RingGrowLoop(_, _)
\* while (availableData + len > capacity) grow()
RingGrowLoop(rb, len) ==
    IF rb.availableData + len > rb.capacity
    THEN RingGrowLoop(RingGrow(rb), len)
    ELSE rb

RECURSIVE RingWriteLoop(_, _, _)
\* for (i = 0; i < len; i++) { buffer[writeIndex] = data[i]; ... }
RingWriteLoop(rb, data, i) ==
    IF i > Len(data) THEN rb
    ELSE RingWriteLoop(
             [rb EXCEPT !.buffer[rb.writeIndex] = data[i],
                        !.writeIndex = (rb.writeIndex + 1) % rb.capacity,
                        !.availableData = rb.availableData + 1],
             data, i + 1)

\* push(data)
RingPush(rb, data) == RingWriteLoop(RingGrowLoop(rb, Len(data)), data, 1)

\* a pull that reports real data whenever it was asked for frames
RingPullReportsFrames(rb, len) ==
    LET available == Min(len, rb.availableData)
    IN  [rb |-> [rb EXCEPT !.readIndex = (rb.readIndex + available) % rb.capacity,
                           !.availableData = rb.availableData - available],
         out |-> [i \in 1..len |->
                     IF i <= available
                     THEN rb.buffer[(rb.readIndex + i - 1) % rb.capacity]
                     ELSE 0],
         real |-> len > 0]

\* pull(outputBuffer) on an output of len frames: the buffer after the call,
\* the output as filled, and the value returned
RingPull(rb, len) ==
    LET available == Min(len, rb.availableData)
    IN  [rb |-> [rb EXCEPT !.readIndex = (rb.readIndex + available) % rb.capacity,
                           !.availableData = rb.availableData - available],
         out |-> [i \in 1..len |->
                     IF i <= available
                     THEN rb.buffer[(rb.readIndex + i - 1) % rb.capacity]
                     ELSE 0],
         real |-> available > 0]

\* available()
RingAvailable(rb) == rb.availableData

\* a clear that leaves writeIndex where it is
RingClearKeepsWrite(rb) ==
    [rb EXCEPT !.readIndex = 0, !.availableData = 0]

\* a clear that rewinds the indices and keeps the count of unread samples
RingClearKeepsAvailable(rb) ==
    [rb EXCEPT !.readIndex = 0, !.writeIndex = 0]

\* clear()
RingClear(rb) ==
    [rb EXCEPT !.readIndex = 0, !.writeIndex = 0, !.availableData = 0]

(***************************************************************************)
(* class AudioPlaybackProcessor.  p is the processor object,               *)
(* [ringBuffer, isPlaying, streamComplete]; a message is [type, samples].  *)
(***************************************************************************)
Msg(type) == [type |-> type, samples |-> << >>]

AudioMsg(samples) == [type |-> "audio", samples |-> samples]

\* an onmessage whose stop also empties the ring buffer
ProcessorOnMessageStopClears(p, msg) ==
    IF msg.type = "audio"
    THEN [p EXCEPT !.ringBuffer = RingPush(p.ringBuffer, msg.samples),
                   !.isPlaying = TRUE]
    ELSE IF msg.type \in {"clear", "stop"}
    THEN [p EXCEPT !.ringBuffer = RingClear(p.ringBuffer),
                   !.isPlaying = FALSE,
                   !.streamComplete = FALSE]
    ELSE IF msg.type = "streamComplete"
    THEN [p EXCEPT !.streamComplete = TRUE]
    ELSE p

\* this.port.onmessage
ProcessorOnMessage(p, msg) ==
    IF msg.type = "audio"
    THEN [p EXCEPT !.ringBuffer = RingPush(p.ringBuffer, msg.samples),
                   !.isPlaying = TRUE]
    ELSE IF msg.type = "clear"
    THEN [p EXCEPT !.ringBuffer = RingClear(p.ringBuffer),
                   !.isPlaying = FALSE,
                   !.streamComplete = FALSE]
    ELSE IF msg.type = "streamComplete"
    THEN [p EXCEPT !.streamComplete = TRUE]
    ELSE IF msg.type = "stop"
    THEN [p EXCEPT !.isPlaying = FALSE,
                   !.streamComplete = FALSE]
    ELSE p

\* a process() that reports the end as soon as the stream is complete
ProcessorProcessEndsEarly(p, ch, channels) ==
    IF channels = 0
    THEN [p |-> p, channel |-> ch, posted |-> << >>]
    ELSE IF p.isPlaying
    THEN LET r == RingPull(p.ringBuffer, Len(ch))
         IN  IF p.streamComplete
             THEN [p |-> [ringBuffer |-> r.rb, isPlaying |-> FALSE,
                          streamComplete |-> FALSE],
                   channel |-> r.out,
                   posted |-> << Msg("ended") >>]
             ELSE [p |-> [p EXCEPT !.ringBuffer = r.rb],
                   channel |-> r.out,
                   posted |-> << >>]
    ELSE [p |-> p, channel |-> [i \in 1..Len(ch) |-> 0], posted |-> << >>]

\* a process() that posts "ended" and leaves both flags as they were
ProcessorProcessKeepsFlags(p, ch, channels) ==
    IF channels = 0
    THEN [p |-> p, channel |-> ch, posted |-> << >>]
    ELSE IF p.isPlaying
    THEN LET r == RingPull(p.ringBuffer, Len(ch))
         IN  [p |-> [p EXCEPT !.ringBuffer = r.rb],
              channel |-> r.out,
              posted |-> IF p.streamComplete /\ RingAvailable(r.rb) = 0
                         THEN << Msg("ended") >> ELSE << >>]
    ELSE [p |-> p, channel |-> [i \in 1..Len(ch) |-> 0], posted |-> << >>]

\* a process() that discards a render quantum of buffered samples when the
\* processor is not playing
ProcessorProcessDrainsWhenIdle(p, ch, channels) ==
    IF channels = 0
    THEN [p |-> p, channel |-> ch, posted |-> << >>]
    ELSE IF p.isPlaying
    THEN LET r == RingPull(p.ringBuffer, Len(ch))
         IN  IF p.streamComplete /\ RingAvailable(r.rb) = 0
             THEN [p |-> [ringBuffer |-> r.rb, isPlaying |-> FALSE,
                          streamComplete |-> FALSE],
                   channel |-> r.out,
                   posted |-> << Msg("ended") >>]
             ELSE [p |-> [p EXCEPT !.ringBuffer = r.rb],
                   channel |-> r.out,
                   posted |-> << >>]
    ELSE [p |-> [p EXCEPT !.ringBuffer = RingPull(p.ringBuffer, Len(ch)).rb],
          channel |-> [i \in 1..Len(ch) |-> 0], posted |-> << >>]

\* a process() that stops playing when it finds the ring buffer empty
ProcessorProcessStopsWhenDry(p, ch, channels) ==
    IF channels = 0
    THEN [p |-> p, channel |-> ch, posted |-> << >>]
    ELSE IF p.isPlaying
    THEN LET r == RingPull(p.ringBuffer, Len(ch))
         IN  IF p.streamComplete /\ RingAvailable(r.rb) = 0
             THEN [p |-> [ringBuffer |-> r.rb, isPlaying |-> FALSE,
                          streamComplete |-> FALSE],
                   channel |-> r.out,
                   posted |-> << Msg("ended") >>]
             ELSE [p |-> [p EXCEPT !.ringBuffer = r.rb,
                                   !.isPlaying = RingAvailable(p.ringBuffer) > 0],
                   channel |-> r.out,
                   posted |-> << >>]
    ELSE [p |-> p, channel |-> [i \in 1..Len(ch) |-> 0], posted |-> << >>]

\* a process() that posts "ended" only from a call that itself pulled the
\* last samples out of the ring buffer
ProcessorProcessEndsOnlyOnDrain(p, ch, channels) ==
    IF channels = 0
    THEN [p |-> p, channel |-> ch, posted |-> << >>]
    ELSE IF p.isPlaying
    THEN LET r == RingPull(p.ringBuffer, Len(ch))
         IN  IF /\ p.streamComplete
                /\ RingAvailable(p.ringBuffer) > 0
                /\ RingAvailable(r.rb) = 0
             THEN [p |-> [ringBuffer |-> r.rb, isPlaying |-> FALSE,
                          streamComplete |-> FALSE],
                   channel |-> r.out,
                   posted |-> << Msg("ended") >>]
             ELSE [p |-> [p EXCEPT !.ringBuffer = r.rb],
                   channel |-> r.out,
                   posted |-> << >>]
    ELSE [p |-> p, channel |-> [i \in 1..Len(ch) |-> 0], posted |-> << >>]

\* process(inputs, outputs) with outputs[0] of `channels` channels, the first
\* of them ch: the processor after the call, the channel as filled, and the
\* messages posted
ProcessorProcess(p, ch, channels) ==
    IF channels = 0
    THEN [p |-> p, channel |-> ch, posted |-> << >>]
    ELSE IF p.isPlaying
    THEN LET r == RingPull(p.ringBuffer, Len(ch))
         IN  IF p.streamComplete /\ RingAvailable(r.rb) = 0
             THEN [p |-> [ringBuffer |-> r.rb, isPlaying |-> FALSE,
                          streamComplete |-> FALSE],
                   channel |-> r.out,
                   posted |-> << Msg("ended") >>]
             ELSE [p |-> [p EXCEPT !.ringBuffer = r.rb],
                   channel |-> r.out,
                   posted |-> << >>]
    ELSE [p |-> p, channel |-> [i \in 1..Len(ch) |-> 0], posted |-> << >>]

(***************************************************************************)
(* useAudioPlayback.  h is the state of one use of the hook,               *)
(* [toWorklet, state, seqBuffer, readyRef]; a call that can throw returns  *)
(* [h, threw] with threw the exception ("none" when it returned).          *)
(***************************************************************************)
\* init(): creates the context and the worklet node once
HookInitCall(h) == IF h.readyRef THEN h ELSE [h EXCEPT !.readyRef = TRUE]

\* an onmessage that records the end of playback as the state "ended"
HookOnMessageSetsEnded(h, msg) ==
    IF msg.type = "ended" THEN [h EXCEPT !.state = "ended"] ELSE h

\* worklet.port.onmessage
HookOnMessage(h, msg) ==
    IF msg.type = "ended" THEN [h EXCEPT !.state = "idle"] ELSE h

\* a pushAudio that posts its message ahead of those not yet delivered
HookPushAudioJumpsQueue(h, base64Audio) ==
    IF ~h.readyRef
    THEN [h |-> h, threw |-> "none"]
    ELSE LET d == decodePCM16ToFloat32(base64Audio)
         IN  IF ~d.ok
             THEN [h |-> h, threw |-> d.error]
             ELSE [h |-> [h EXCEPT !.toWorklet = << AudioMsg(d.samples) >> \o @,
                                   !.state = "playing"],
                   threw |-> "none"]

\* pushAudio(base64Audio)
HookPushAudio(h, base64Audio) ==
    IF ~h.readyRef
    THEN [h |-> h, threw |-> "none"]
    ELSE LET d == decodePCM16ToFloat32(base64Audio)
         IN  IF ~d.ok
             THEN [h |-> h, threw |-> d.error]
             ELSE [h |-> [h EXCEPT !.toWorklet = Append(@, AudioMsg(d.samples)),
                                   !.state = "playing"],
                   threw |-> "none"]

RECURSIVE HookPostChunks(_, _, _)
\* for (const chunk of readyChunks) { decode; postMessage }
HookPostChunks(h, readyChunks, i) ==
    IF i > Len(readyChunks)
    THEN [h |-> h, threw |-> "none"]
    ELSE LET d == decodePCM16ToFloat32(readyChunks[i])
         IN  IF ~d.ok
             THEN [h |-> h, threw |-> d.error]
             ELSE HookPostChunks(
                      [h EXCEPT !.toWorklet = Append(@, AudioMsg(d.samples))],
                      readyChunks, i + 1)

\* a pushSequencedAudio that sets the state to playing whatever was released
HookPushSequencedAudioAlwaysPlaying(h, seq, base64Audio) ==
    IF ~h.readyRef
    THEN [h |-> h, threw |-> "none"]
    ELSE LET r == SequenceBufferPush(h.seqBuffer, seq, base64Audio)
             posted == HookPostChunks([h EXCEPT !.seqBuffer = r.buf], r.ready, 1)
         IN  IF posted.threw # "none"
             THEN posted
             ELSE [h |-> [posted.h EXCEPT !.state = "playing"], threw |-> "none"]

\* pushSequencedAudio(seq, base64Audio)
HookPushSequencedAudio(h, seq, base64Audio) ==
    IF ~h.readyRef
    THEN [h |-> h, threw |-> "none"]
    ELSE LET r == SequenceBufferPush(h.seqBuffer, seq, base64Audio)
             posted == HookPostChunks([h EXCEPT !.seqBuffer = r.buf], r.ready, 1)
         IN  IF posted.threw # "none"
             THEN posted
             ELSE IF Len(r.ready) > 0
             THEN [h |-> [posted.h EXCEPT !.state = "playing"], threw |-> "none"]
             ELSE posted

\* signalComplete()
HookSignalComplete(h) ==
    IF h.readyRef
    THEN [h EXCEPT !.toWorklet = Append(@, Msg("streamComplete"))]
    ELSE h

\* a clear that leaves the SequenceBuffer as it is
HookClearKeepsSequence(h) ==
    [h EXCEPT !.toWorklet = IF h.readyRef THEN Append(@, Msg("clear")) ELSE @,
              !.state = "idle"]

\* clear()
HookClear(h) ==
    [h EXCEPT !.toWorklet = IF h.readyRef THEN Append(@, Msg("clear")) ELSE @,
              !.seqBuffer = SequenceBufferReset(@),
              !.state = "idle"]

(***************************************************************************)
(* The event stream.  The response text is a sequence of tokens: "data:"   *)
(* and " " (the prefix "data: "), one token for the body of a JSON object  *)
(* up to its closing brace, "}" and "\n".  JSON.parse accepts a body       *)
(* token followed by "}" and fails with a SyntaxError on any other text.   *)
(* An event is [type, data, seq, error]; seq = NoSeq when the record       *)
(* carries no sequence number.                                             *)
(***************************************************************************)
NoSeq == -1

Prefix == << "data:", " " >>

Event(type, data, seq, error) ==
    [type |-> type, data |-> data, seq |-> seq, error |-> error]

EventOf ==
    [b \in {"{user_transcript", "{transcript:a", "{transcript:b", "{audio:A",
            "{audio:B", "{audio:A,seq:1", "{audio:B,seq:0", "{audio:bad",
            "{done", "{error"} |->
        CASE b = "{user_transcript" -> Event("user_transcript", << "u" >>, NoSeq, << >>)
          [] b = "{transcript:a" -> Event("transcript", << "a" >>, NoSeq, << >>)
          [] b = "{transcript:b" -> Event("transcript", << "b" >>, NoSeq, << >>)
          [] b = "{audio:A" -> Event("audio", PayloadA, NoSeq, << >>)
          [] b = "{audio:B" -> Event("audio", PayloadB, NoSeq, << >>)
          [] b = "{audio:A,seq:1" -> Event("audio", PayloadA, 1, << >>)
          [] b = "{audio:B,seq:0" -> Event("audio", PayloadB, 0, << >>)
          [] b = "{audio:bad" -> Event("audio", PayloadBad, NoSeq, << >>)
          [] b = "{done" -> Event("done", << >>, NoSeq, << >>)
          [] b = "{error" -> Event("error", << >>, NoSeq, << "e" >>)]

\* JSON.parse(text): [ok, event]; ok = FALSE is the SyntaxError
JsonParse(text) ==
    IF Len(text) = 2 /\ text[1] \in DOMAIN EventOf /\ text[2] = "}"
    THEN [ok |-> TRUE, event |-> EventOf[text[1]]]
    ELSE [ok |-> FALSE, event |-> Event("", << >>, NoSeq, << >>)]

\* line.startsWith("data: ")
StartsWithPrefix(line) ==
    Len(line) >= Len(Prefix) /\ SubSeq(line, 1, Len(Prefix)) = Prefix

RECURSIVE SplitLoop(_, _)
SplitLoop(text, piece) ==
    IF text = << >> THEN << piece >>
    ELSE IF Head(text) = "\n"
    THEN << piece >> \o SplitLoop(Tail(text), << >>)
    ELSE SplitLoop(Tail(text), Append(piece, Head(text)))

\* buffer.split("\n"): the pieces between the newlines, at least one
Split(text) == SplitLoop(text, << >>)

(***************************************************************************)
(* useVoiceStream.streamVoiceResponse.  st is what the read loop works on, *)
(* [h, fullTranscript, calls, linesSeen], h being the playback hook.       *)
(***************************************************************************)
Call(fn, rec, arg, full) == [fn |-> fn, rec |-> rec, arg |-> arg, full |-> full]

\* an audio case whose exceptions are swallowed like a SyntaxError
DispatchAudioSwallows(st, event, rec) ==
    LET r == HookPushAudio(st.h, event.data)
    IN  IF r.threw # "none"
        THEN st
        ELSE IF Len(r.h.toWorklet) > Len(st.h.toWorklet)
        THEN [st EXCEPT !.h = r.h,
                        !.calls = Append(@, Call("postAudio", rec, event.data, << >>))]
        ELSE [st EXCEPT !.h = r.h]

\* case "audio": playback.pushAudio(event.data), inside the try
DispatchAudio(st, event, rec) ==
    LET r == HookPushAudio(st.h, event.data)
    IN  IF r.threw # "none"
        THEN [st EXCEPT !.calls = Append(@, Call("onError", rec, << r.threw >>, << >>))]
        ELSE IF Len(r.h.toWorklet) > Len(st.h.toWorklet)
        THEN [st EXCEPT !.h = r.h,
                        !.calls = Append(@, Call("postAudio", rec, event.data, << >>))]
        ELSE [st EXCEPT !.h = r.h]

\* a dispatch whose running transcript is the last delta only
DispatchKeepsLastDelta(st, event, rec) ==
    IF event.type = "user_transcript"
    THEN [st EXCEPT !.calls = Append(@, Call("onUserTranscript", rec, event.data, << >>))]
    ELSE IF event.type = "transcript"
    THEN [st EXCEPT !.fullTranscript = event.data,
                    !.calls = Append(@, Call("onTranscript", rec, event.data, event.data))]
    ELSE IF event.type = "audio"
    THEN DispatchAudio(st, event, rec)
    ELSE IF event.type = "done"
    THEN LET h2 == HookSignalComplete(st.h)
             posted == IF Len(h2.toWorklet) > Len(st.h.toWorklet)
                       THEN << Call("postStreamComplete", rec, << >>, << >>) >>
                       ELSE << >>
         IN  [st EXCEPT !.h = h2,
                        !.calls = (@ \o posted)
                                  \o << Call("onComplete", rec, << >>, st.fullTranscript) >>]
    ELSE IF event.type = "error"
    THEN [st EXCEPT !.calls = Append(@, Call("onError", rec, event.error, << >>))]
    ELSE st

\* the body of the try and its catch, for a parsed event
Dispatch(st, event, rec) ==
    IF event.type = "user_transcript"
    THEN [st EXCEPT !.calls = Append(@, Call("onUserTranscript", rec, event.data, << >>))]
    ELSE IF event.type = "transcript"
    THEN LET full == st.fullTranscript \o event.data
         IN  [st EXCEPT !.fullTranscript = full,
                        !.calls = Append(@, Call("onTranscript", rec, event.data, full))]
    ELSE IF event.type = "audio"
    THEN DispatchAudio(st, event, rec)
    ELSE IF event.type = "done"
    THEN LET h2 == HookSignalComplete(st.h)
             posted == IF Len(h2.toWorklet) > Len(st.h.toWorklet)
                       THEN << Call("postStreamComplete", rec, << >>, << >>) >>
                       ELSE << >>
         IN  [st EXCEPT !.h = h2,
                        !.calls = (@ \o posted)
                                  \o << Call("onComplete", rec, << >>, st.fullTranscript) >>]
    ELSE IF event.type = "error"
    THEN [st EXCEPT !.calls = Append(@, Call("onError", rec, event.error, << >>))]
    ELSE st

\* a loop body whose catch reports every exception, SyntaxError included
ProcessLineReportsAll(st, line) ==
    LET rec == st.linesSeen + 1
        seen == [st EXCEPT !.linesSeen = rec]
    IN  IF ~StartsWithPrefix(line) THEN seen
        ELSE LET parsed == JsonParse(SubSeq(line, Len(Prefix) + 1, Len(line)))
             IN  IF ~parsed.ok
                 THEN [seen EXCEPT !.calls = Append(@, Call("onError", rec, << "SyntaxError" >>, << >>))]
                 ELSE Dispatch(seen, parsed.event, rec)

\* the body of `for (const line of lines)`
ProcessLine(st, line) ==
    LET rec == st.linesSeen + 1
        seen == [st EXCEPT !.linesSeen = rec]
    IN  IF ~StartsWithPrefix(line) THEN seen
        ELSE LET parsed == JsonParse(SubSeq(line, Len(Prefix) + 1, Len(line)))
             IN  IF ~parsed.ok
                 THEN seen
                 ELSE Dispatch(seen, parsed.event, rec)

RECURSIVE ForEachLine(_, _, _)
ForEachLine(st, lines, i) ==
    IF i > Len(lines) THEN st
    ELSE ForEachLine(ProcessLine(st, lines[i]), lines, i + 1)

\* a pass of the while loop that forgets what the previous chunk left over
ReadLoopBodyForgetsRemainder(st, buf, value) ==
    LET pieces == Split(value)
    IN  [buffer |-> pieces[Len(pieces)],
         st |-> ForEachLine(st, SubSeq(pieces, 1, Len(pieces) - 1), 1)]

\* one pass of the while loop for a chunk `value`: the new buffer and st
ReadLoopBody(st, buf, value) ==
    LET pieces == Split(buf \o value)
    IN  [buffer |-> pieces[Len(pieces)],
         st |-> ForEachLine(st, SubSeq(pieces, 1, Len(pieces) - 1), 1)]

(***************************************************************************)
(* Inputs of the model.                                                    *)
(***************************************************************************)
\* payloads handed to SequenceBuffer.push
SeqPayloads == {PayloadA, PayloadB}

\* sample values (numerators over Scale) of pushed blocks
SampleValues == {1, 2}

\* blocks of samples handed to RingBuffer.push or carried by an audio message
Blocks == SeqsOf(SampleValues, 0, MaxBlock)

(***************************************************************************)
(* Initial state: every object as its constructor leaves it.               *)
(***************************************************************************)
SeqInit ==
    /\ seqBuffer = SequenceBufferNew
    /\ pushLog = << >>
    /\ released = << >>

RingInit ==
    /\ ringBuffer = RingBufferNew(InitialCapacity)
    /\ pushed = << >>
    /\ pulled = << >>
    /\ starved = FALSE
    /\ pullReturned = FALSE
    /\ lastGrow = [from |-> 0, wrapped |-> FALSE]

ProcInit ==
    /\ isPlaying = FALSE
    /\ streamComplete = FALSE
    /\ channel = [i \in 1..Quantum |-> 0]
    /\ completeOver = 0
    /\ toUI = << >>

ProcHistInit ==
    /\ lastStep = "none"
    /\ sinceEnded = {}
    /\ endedPosts = 0
    /\ ranDry = FALSE
    /\ heldAtStop = << >>

PlayInit ==
    /\ arrived = << >>
    /\ rendered = << >>
    /\ lastPush = << >>
    /\ dropped = 0

HookInit ==
    /\ toWorklet = << >>
    /\ state = "idle"
    /\ readyRef = FALSE
    /\ uiCalls = 0

(***************************************************************************)
(* SequenceBuffer on its own: push and reset called in any order.          *)
(***************************************************************************)
SeqPushCall(seq, data) ==
    /\ Len(pushLog) < MaxPushes
    /\ \E r \in {SequenceBufferPush(seqBuffer, seq, data)} :
           /\ seqBuffer' = r.buf
           /\ released' = released \o r.ready
    /\ pushLog' = Append(pushLog,
                         [seq |-> seq, data |-> data, next |-> seqBuffer.nextSeq])

SeqResetCall ==
    /\ seqBuffer' = SequenceBufferReset(seqBuffer)
    /\ pushLog' = << >>
    /\ released' = << >>

(***************************************************************************)
(* RingBuffer on its own: push, grow, pull and clear called in any order.  *)
(***************************************************************************)
\* what a growth of rb is recorded as
GrowthOf(rb) ==
    [from |-> rb.capacity,
     wrapped |-> rb.readIndex + rb.availableData > rb.capacity]

RingPushCall(data) ==
    /\ ringBuffer.availableData + Len(data) <= MaxBuffered
    /\ Len(pushed) + Len(data) <= MaxHistory
    /\ ringBuffer' = RingPush(ringBuffer, data)
    /\ pushed' = pushed \o data
    /\ lastGrow' = IF ringBuffer'.capacity # ringBuffer.capacity
                   THEN GrowthOf(ringBuffer)
                   ELSE lastGrow
    /\ UNCHANGED << pulled, starved, pullReturned >>

RingGrowCall ==
    /\ ringBuffer.capacity < MaxBuffered
    /\ ringBuffer' = RingGrow(ringBuffer)
    /\ lastGrow' = GrowthOf(ringBuffer)
    /\ UNCHANGED << pushed, pulled, starved, pullReturned >>

RingPullCall(len) ==
    /\ Len(pulled) + len <= MaxHistory
    /\ \E r \in {RingPull(ringBuffer, len)} :
           /\ ringBuffer' = r.rb
           /\ pulled' = pulled \o r.out
           /\ pullReturned' = r.real
    /\ starved' = (starved \/ len > ringBuffer.availableData)
    /\ UNCHANGED << pushed, lastGrow >>

RingClearCall ==
    /\ ringBuffer' = RingClear(ringBuffer)
    /\ pushed' = << >>
    /\ pulled' = << >>
    /\ starved' = FALSE
    /\ pullReturned' = FALSE
    /\ lastGrow' = [from |-> 0, wrapped |-> FALSE]

(***************************************************************************)
(* AudioPlaybackProcessor on its own: messages of every type arrive in any *)
(* order, process() runs between them, and the UI side takes the messages  *)
(* the processor posts.                                                    *)
(***************************************************************************)
Processor ==
    [ringBuffer |-> ringBuffer, isPlaying |-> isPlaying,
     streamComplete |-> streamComplete]

Hook ==
    [toWorklet |-> toWorklet, state |-> state, seqBuffer |-> seqBuffer,
     readyRef |-> readyRef]

\* the processor receives msg
WorkletReceive(msg) ==
    /\ msg.type = "audio" =>
           ringBuffer.availableData + Len(msg.samples) <= MaxBuffered
    /\ \E q \in {ProcessorOnMessage(Processor, msg)} :
           /\ ringBuffer' = q.ringBuffer
           /\ isPlaying' = q.isPlaying
           /\ streamComplete' = q.streamComplete
    /\ UNCHANGED << channel, toUI >>

\* history: what was buffered when a streamComplete message arrived
NoteComplete(msg) ==
    completeOver' =
        IF msg.type = "streamComplete"
        THEN (IF isPlaying THEN ringBuffer.availableData ELSE 0)
        ELSE IF msg.type \in {"clear", "stop"} THEN 0
        ELSE completeOver

\* the unread samples of a RingBuffer, oldest first
RingUnread(rb) ==
    [i \in 1..rb.availableData |-> rb.buffer[(rb.readIndex + i - 1) % rb.capacity]]

\* a call of process() posted "ended"
PostsEnded == Len(toUI') > Len(toUI)

\* history of the playbacks: a message was received
NoteEndedReceive(msg) ==
    /\ sinceEnded' = sinceEnded \cup ({msg.type} \cap {"audio", "streamComplete"})
    /\ UNCHANGED endedPosts

\* history of the playbacks: process() was called
NoteEndedProcess ==
    /\ sinceEnded' = IF PostsEnded THEN {} ELSE sinceEnded
    /\ endedPosts' = IF PostsEnded /\ endedPosts < MaxEnded
                     THEN endedPosts + 1 ELSE endedPosts

\* history of the handlers: a message was received
NoteStepReceive(msg) ==
    /\ lastStep' = msg.type
    /\ ranDry' = (ranDry /\ msg.type \notin {"clear", "stop"})
    /\ heldAtStop' = IF msg.type = "stop" THEN RingUnread(ringBuffer)
                     ELSE IF msg.type = "clear" THEN << >>
                     ELSE heldAtStop

\* history of the handlers: process() was called
NoteStepProcess(channels) ==
    /\ lastStep' = IF channels = 0 THEN "processNoOutput" ELSE "process"
    /\ ranDry' = IF PostsEnded THEN FALSE
                 ELSE (\/ ranDry
                       \/ /\ channels # 0
                          /\ isPlaying /\ ~streamComplete
                          /\ ringBuffer.availableData = 0)
    /\ heldAtStop' = IF channels # 0 /\ isPlaying
                     THEN SubSeq(heldAtStop, Quantum + 1, Len(heldAtStop))
                     ELSE heldAtStop

\* the audio engine calls process() for one render quantum
Process(channels) ==
    /\ Len(toUI) < MaxQueue
    /\ \E r \in {ProcessorProcess(Processor, channel, channels)} :
           /\ ringBuffer' = r.p.ringBuffer
           /\ isPlaying' = r.p.isPlaying
           /\ streamComplete' = r.p.streamComplete
           /\ channel' = r.channel
           /\ toUI' = toUI \o r.posted

\* the UI side receives the oldest message of the worklet
UiReceive ==
    /\ toUI # << >>
    /\ LET q == HookOnMessage(Hook, Head(toUI))
       IN  state' = q.state
    /\ toUI' = Tail(toUI)
    /\ UNCHANGED << isPlaying, streamComplete, channel >>

(***************************************************************************)
(* The playback pipeline: the owner of the hook calls init, pushAudio,     *)
(* pushSequencedAudio, signalComplete and clear in any order; the port     *)
(* delivers the messages of each direction in the order of their posting;  *)
(* the audio engine calls process().                                       *)
(***************************************************************************)
RECURSIVE SamplesOf(_)
\* the samples of a list of audio messages, concatenated
SamplesOf(msgs) ==
    IF msgs = << >> THEN << >>
    ELSE Head(msgs).samples \o SamplesOf(Tail(msgs))

\* payloads handed to the hook
HookPayloads == {PayloadA, PayloadB, PayloadBad}

\* the hook after a call
HookBecomes(h) ==
    /\ uiCalls < MaxCalls
    /\ uiCalls' = uiCalls + 1
    /\ toWorklet' = h.toWorklet
    /\ state' = h.state
    /\ seqBuffer' = h.seqBuffer
    /\ readyRef' = h.readyRef

\* the payloads a SequenceBuffer holds
Held(sb) ==
    UNION {{<< k, i >> : i \in 1..Len(sb.pending[k])} : k \in DOMAIN sb.pending}

UiInit ==
    /\ HookBecomes(HookInitCall(Hook))

UiPushAudio(base64Audio) ==
    /\ \E r \in {HookPushAudio(Hook, base64Audio)} :
           /\ Len(r.h.toWorklet) <= MaxInFlight
           /\ HookBecomes(r.h)

UiPushSequencedAudio(seq, base64Audio) ==
    /\ \E r \in {HookPushSequencedAudio(Hook, seq, base64Audio)} :
           /\ Len(r.h.toWorklet) <= MaxInFlight
           /\ Cardinality(Held(r.h.seqBuffer)) <= MaxHeld
           /\ HookBecomes(r.h)

UiSignalComplete ==
    /\ Len(toWorklet) < MaxInFlight
    /\ HookBecomes(HookSignalComplete(Hook))

UiClear ==
    /\ Len(toWorklet) < MaxInFlight
    /\ HookBecomes(HookClear(Hook))

\* the port hands the oldest message of the UI side to the processor
Deliver ==
    /\ toWorklet # << >>
    /\ WorkletReceive(Head(toWorklet))
    /\ toWorklet' = Tail(toWorklet)

(***************************************************************************)
(* One call of streamVoiceResponse against a server that writes records    *)
(* to the response and a network that hands them over in chunks.           *)
(***************************************************************************)
StreamInit ==
    /\ pc = "idle"
    /\ response = "none"
    /\ wire = << >>
    /\ serverClosed = FALSE
    /\ cutShort = << >>
    /\ lineBuffer = << >>
    /\ fullTranscript = << >>
    /\ sent = << >>
    /\ linesSeen = 0
    /\ calls = << >>

\* the lines a server writes: a record per event, a record cut short before
\* its closing brace, and the empty line that separates records
ServerLines ==
    {Prefix \o << b, "}" >> : b \in DOMAIN EventOf}
        \cup {Prefix \o << "{transcript:a" >>, << >>}

\* await playback.init(); playback.clear(); then the request is sent
StreamStart ==
    /\ pc = "idle"
    /\ \E h \in {HookClear(HookInitCall(Hook))} :
           /\ toWorklet' = h.toWorklet
           /\ state' = h.state
           /\ seqBuffer' = h.seqBuffer
           /\ readyRef' = h.readyRef
    /\ pc' = "awaitingResponse"
    /\ uiCalls' = uiCalls + 2
    /\ UNCHANGED << response, wire, serverClosed, cutShort, lineBuffer, fullTranscript,
                    sent, linesSeen, calls >>

\* await fetch(...) settles; the function throws unless the response is ok
\* and has a body
FetchSettles(outcome) ==
    /\ pc = "awaitingResponse"
    /\ response' = outcome
    /\ pc' = IF outcome = "ok" THEN "streaming" ELSE "rejected"
    /\ UNCHANGED << uiCalls, toWorklet, state, seqBuffer, readyRef, wire, serverClosed, cutShort,
                    lineBuffer, fullTranscript, sent, linesSeen, calls >>

\* the server writes one line and its newline
ServerWrite(line) ==
    /\ response = "ok"
    /\ ~serverClosed
    /\ Len(sent) < MaxRecords
    /\ Len(wire) <= MaxUnread
    /\ wire' = wire \o line \o << "\n" >>
    /\ sent' = Append(sent, line)
    /\ UNCHANGED << uiCalls, toWorklet, state, seqBuffer, readyRef, pc, response,
                    serverClosed, cutShort, lineBuffer, fullTranscript, linesSeen, calls >>

\* what a server can write after its last newline: nothing, or a record
\* that lacks its newline
LastTexts == {<< >>, Prefix \o << "{done", "}" >>}

\* the server writes `text` without a newline and ends the response; a
\* record that lacks its newline counts as one of the MaxRecords records
ServerEnd(text) ==
    /\ response = "ok"
    /\ ~serverClosed
    /\ text # << >> => Len(sent) < MaxRecords
    /\ serverClosed' = TRUE
    /\ wire' = wire \o text
    /\ cutShort' = text
    /\ UNCHANGED << uiCalls, toWorklet, state, seqBuffer, readyRef, pc, response,
                    lineBuffer, fullTranscript, sent, linesSeen, calls >>

\* await streamReader.read() yields the next n tokens of the body
ReadChunk(n) ==
    /\ pc = "streaming"
    /\ n <= Len(wire)
    /\ \E r \in {ReadLoopBody([h |-> Hook, fullTranscript |-> fullTranscript,
                               calls |-> calls, linesSeen |-> linesSeen],
                              lineBuffer, SubSeq(wire, 1, n))} :
           /\ lineBuffer' = r.buffer
           /\ fullTranscript' = r.st.fullTranscript
           /\ calls' = r.st.calls
           /\ linesSeen' = r.st.linesSeen
           /\ toWorklet' = r.st.h.toWorklet
           /\ state' = r.st.h.state
           /\ seqBuffer' = r.st.h.seqBuffer
           /\ readyRef' = r.st.h.readyRef
    /\ wire' = SubSeq(wire, n + 1, Len(wire))
    /\ UNCHANGED << uiCalls, pc, response, serverClosed, cutShort, sent >>

\* await streamReader.read() yields done: the loop breaks, the call returns
ReadDone ==
    /\ pc = "streaming"
    /\ wire = << >>
    /\ serverClosed
    /\ pc' = "resolved"
    /\ UNCHANGED << uiCalls, toWorklet, state, seqBuffer, readyRef, response, wire,
                    serverClosed, cutShort, lineBuffer, fullTranscript, sent, linesSeen,
                    calls >>
(***************************************************************************)
(* Specifications.                                                         *)
(***************************************************************************)
vars == << seqVars, ringVars, procVars, hookVars, streamVars, playVars, procHist,
          decodeVars >>

\* the result of a call that has not been made
NotCalled == [ok |-> FALSE, error |-> "notCalled", samples |-> << >>]

\* no call of the decoder on its own is under way
DecodeIdle ==
    /\ decodeInput = [text |-> << >>, wellFormed |-> TRUE, ints |-> << >>, odd |-> FALSE]
    /\ decodeResult = NotCalled

Init ==
    /\ SeqInit /\ RingInit /\ ProcInit /\ HookInit /\ StreamInit /\ PlayInit
    /\ ProcHistInit /\ DecodeIdle

\* process() in the pipeline, with the record of what it rendered
Render(channels) ==
    /\ Process(channels)
    /\ rendered' = IF channels = 0 THEN rendered
                   ELSE rendered \o SelectSeq(channel', LAMBDA x : x # 0)
    /\ UNCHANGED << decodeVars, procHist, seqVars, pushed, pulled, starved, pullReturned,
                    lastGrow, hookVars, completeOver, streamVars,
                    arrived, lastPush, dropped >>

\* the onmessage handler of the hook in the pipeline
Notify ==
    /\ UiReceive
    /\ UNCHANGED << decodeVars, procHist, seqVars, ringVars, toWorklet, readyRef, uiCalls,
                    completeOver, streamVars, playVars >>

Next ==
    \/ UiInit
       /\ UNCHANGED << decodeVars, procHist, pushLog, released, ringVars, procVars, streamVars, playVars >>
    \/ \E b \in HookPayloads :
           /\ UiPushAudio(b)
           /\ \E d \in {decodePCM16ToFloat32(b)} :
                  arrived' = IF readyRef /\ d.ok THEN arrived \o d.samples
                             ELSE arrived
           /\ UNCHANGED << decodeVars, procHist, pushLog, released, ringVars, procVars, streamVars,
                           rendered, lastPush, dropped >>
    \/ \E seq \in 0..MaxHookSeq, b \in HookPayloads :
           /\ UiPushSequencedAudio(seq, b)
           /\ arrived' = arrived \o SamplesOf(SubSeq(toWorklet', Len(toWorklet) + 1,
                                                     Len(toWorklet')))
           /\ lastPush' = IF readyRef THEN << [seq |-> seq, data |-> b] >>
                          ELSE lastPush
           /\ UNCHANGED << decodeVars, procHist, pushLog, released, ringVars, procVars, streamVars,
                           rendered, dropped >>
    \/ UiSignalComplete
       /\ UNCHANGED << decodeVars, procHist, pushLog, released, ringVars, procVars, streamVars, playVars >>
    \/ UiClear
       /\ arrived' = << >>
       /\ lastPush' = << >>
       /\ dropped' = Cardinality(Held(seqBuffer))
       /\ UNCHANGED << decodeVars, procHist, pushLog, released, ringVars, procVars, streamVars, rendered >>
    \/ /\ uiCalls + 2 <= MaxCalls
       /\ StreamStart
       /\ arrived' = << >>
       /\ lastPush' = << >>
       /\ dropped' = Cardinality(Held(seqBuffer))
       /\ UNCHANGED << decodeVars, procHist, pushLog, released, ringVars, procVars, rendered >>
    \/ /\ Deliver
       /\ rendered' = IF Head(toWorklet).type = "clear" THEN << >> ELSE rendered
       /\ UNCHANGED << decodeVars, procHist, seqVars, pushed, pulled, starved, pullReturned, lastGrow,
                       state, readyRef, uiCalls, completeOver, streamVars,
                       arrived, lastPush, dropped >>
    \/ \E channels \in {0, 1} : Render(channels)
    \/ Notify

Spec == Init /\ [][Next]_vars

\* The pipeline under the scheduling of the platform: the audio engine calls
\* process() with an output channel once per render quantum for as long as
\* process() returns true, which it always does, and the event loop of the UI
\* context runs the onmessage handler for every message of the port.
SpecLive ==
    /\ Init /\ [][Next]_vars
    /\ WF_vars(Render(1))
    /\ WF_vars(Notify)

SeqNext ==
    \/ \E seq \in 0..MaxSeq, data \in SeqPayloads :
           SeqPushCall(seq, data) /\ UNCHANGED << decodeVars, procHist, ringVars, procVars, hookVars, streamVars, playVars >>
    \/ SeqResetCall /\ UNCHANGED << decodeVars, procHist, ringVars, procVars, hookVars, streamVars, playVars >>

SpecSeq == Init /\ [][SeqNext]_vars

RingNext ==
    \/ \E data \in Blocks :
           RingPushCall(data) /\ UNCHANGED << decodeVars, procHist, seqVars, procVars, hookVars, streamVars, playVars >>
    \/ RingGrowCall /\ UNCHANGED << decodeVars, procHist, seqVars, procVars, hookVars, streamVars, playVars >>
    \/ \E len \in 1..MaxPull :
           RingPullCall(len) /\ UNCHANGED << decodeVars, procHist, seqVars, procVars, hookVars, streamVars, playVars >>
    \/ RingClearCall /\ UNCHANGED << decodeVars, procHist, seqVars, procVars, hookVars, streamVars, playVars >>

SpecRing == Init /\ [][RingNext]_vars

ProcessorMessages ==
    {AudioMsg(b) : b \in Blocks} \cup {Msg("clear"), Msg("streamComplete"), Msg("stop")}

ProcessorNext ==
    \/ \E msg \in ProcessorMessages :
           WorkletReceive(msg) /\ NoteComplete(msg)
           /\ UNCHANGED << decodeVars, procHist, seqVars, pushed, pulled, starved, pullReturned, lastGrow, hookVars, streamVars, playVars >>
    \/ \E channels \in {0, 1} :
           Process(channels)
           /\ UNCHANGED << decodeVars, procHist, seqVars, pushed, pulled, starved, pullReturned, lastGrow, hookVars,
                           completeOver, streamVars, playVars >>
    \/ UiReceive
       /\ completeOver' = 0
       /\ UNCHANGED << decodeVars, procHist, seqVars, ringVars, toWorklet, readyRef, uiCalls,
                       streamVars, playVars >>

SpecProcessor == Init /\ [][ProcessorNext]_vars

\* The processor with the history of its playbacks: the same steps, and the
\* record of what was received since "ended" was last posted.
EndedNext ==
    \/ \E msg \in ProcessorMessages :
           WorkletReceive(msg) /\ NoteComplete(msg) /\ NoteEndedReceive(msg)
           /\ UNCHANGED << decodeVars, lastStep, ranDry, heldAtStop, seqVars, pushed, pulled, starved, pullReturned, lastGrow, hookVars, streamVars, playVars >>
    \/ \E channels \in {0, 1} :
           Process(channels) /\ NoteEndedProcess
           /\ UNCHANGED << decodeVars, lastStep, ranDry, heldAtStop, seqVars, pushed, pulled, starved, pullReturned, lastGrow, hookVars,
                           completeOver, streamVars, playVars >>
    \/ UiReceive
       /\ completeOver' = 0
       /\ UNCHANGED << decodeVars, procHist, seqVars, ringVars, toWorklet, readyRef, uiCalls,
                       streamVars, playVars >>

SpecEnded == Init /\ [][EndedNext]_vars

\* The processor with the history of its handlers: the same steps, and the
\* record of which handler ran last.
StepsNext ==
    \/ \E msg \in ProcessorMessages :
           WorkletReceive(msg) /\ NoteComplete(msg) /\ NoteStepReceive(msg)
           /\ UNCHANGED << decodeVars, sinceEnded, endedPosts, seqVars, pushed, pulled, starved, pullReturned, lastGrow, hookVars, streamVars, playVars >>
    \/ \E channels \in {0, 1} :
           Process(channels) /\ NoteStepProcess(channels)
           /\ UNCHANGED << decodeVars, sinceEnded, endedPosts, seqVars, pushed, pulled, starved, pullReturned, lastGrow, hookVars,
                           completeOver, streamVars, playVars >>
    \/ UiReceive
       /\ completeOver' = 0
       /\ UNCHANGED << decodeVars, procHist, seqVars, ringVars, toWorklet, readyRef, uiCalls,
                       streamVars, playVars >>

SpecSteps == Init /\ [][StepsNext]_vars

FetchOutcomes == {"ok", "notOk", "noBody", "networkError"}

StreamNext ==
    \/ StreamStart /\ UNCHANGED << decodeVars, procHist, pushLog, released, ringVars, procVars, playVars >>
    \/ \E outcome \in FetchOutcomes :
           FetchSettles(outcome)
           /\ UNCHANGED << decodeVars, procHist, pushLog, released, ringVars, procVars, playVars >>
    \/ \E line \in ServerLines :
           ServerWrite(line) /\ UNCHANGED << decodeVars, procHist, pushLog, released, ringVars, procVars, playVars >>
    \/ \E text \in LastTexts :
           ServerEnd(text) /\ UNCHANGED << decodeVars, procHist, pushLog, released, ringVars, procVars, playVars >>
    \/ \E n \in 1..Len(wire) :
           ReadChunk(n) /\ UNCHANGED << decodeVars, procHist, pushLog, released, ringVars, procVars, playVars >>
    \/ ReadDone /\ UNCHANGED << decodeVars, procHist, pushLog, released, ringVars, procVars, playVars >>

SpecStream == Init /\ [][StreamNext]_vars

(***************************************************************************)
(* decodePCM16ToFloat32 on its own: a caller that decodes one payload      *)
(* after another.  The payloads are the base64 texts of up to MaxSamples   *)
(* 16-bit integers, with or without a lone byte after them, and the same   *)
(* texts with a character outside the alphabet in front.                   *)
(***************************************************************************)
\* the 16-bit integers of the payloads: both ends of the range and the
\* values around zero
SampleInts == {-32768, -1, 0, 1, 32767}

\* the two bytes of a 16-bit integer, low byte first
Int16Bytes(v) ==
    LET u == (v + 65536) % 65536
    IN  << u % 256, u \div 256 >>

RECURSIVE BytesOf(_)
BytesOf(ints) ==
    IF ints = << >> THEN << >>
    ELSE Int16Bytes(Head(ints)) \o BytesOf(Tail(ints))

RECURSIVE Btoa(_)
\* the base64 text of a sequence of bytes, padded with "="
Btoa(bytes) ==
    IF Len(bytes) = 0 THEN << >>
    ELSE IF Len(bytes) = 1
    THEN LET n == bytes[1] * 16
         IN  << B64Alphabet[(n \div 64) + 1], B64Alphabet[(n % 64) + 1], "=", "=" >>
    ELSE IF Len(bytes) = 2
    THEN LET n == (bytes[1] * 256 + bytes[2]) * 4
         IN  << B64Alphabet[(n \div 4096) + 1], B64Alphabet[((n \div 64) % 64) + 1],
                B64Alphabet[(n % 64) + 1], "=" >>
    ELSE LET n == (bytes[1] * 256 + bytes[2]) * 256 + bytes[3]
         IN  << B64Alphabet[(n \div 262144) + 1], B64Alphabet[((n \div 4096) % 64) + 1],
                B64Alphabet[((n \div 64) % 64) + 1], B64Alphabet[(n % 64) + 1] >>
             \o Btoa(SubSeq(bytes, 4, Len(bytes)))

DecodeInputs ==
    LET wellFormed ==
            {[text |-> Btoa(BytesOf(ints) \o (IF odd THEN << 1 >> ELSE << >>)),
              wellFormed |-> TRUE, ints |-> ints, odd |-> odd] :
                 ints \in SeqsOf(SampleInts, 0, MaxSamples), odd \in BOOLEAN}
    IN  wellFormed
        \cup {[in EXCEPT !.text = << "!" >> \o @, !.wellFormed = FALSE] : in \in wellFormed}

DecodeInit ==
    /\ SeqInit /\ RingInit /\ ProcInit /\ HookInit /\ StreamInit /\ PlayInit
    /\ ProcHistInit
    /\ decodeInput \in DecodeInputs
    /\ decodeResult = NotCalled

\* the caller calls decodePCM16ToFloat32(decodeInput.text)
DecodeCall ==
    /\ decodeResult = NotCalled
    /\ decodeResult' = decodePCM16ToFloat32(decodeInput.text)
    /\ UNCHANGED decodeInput

\* the caller turns to another payload
DecodeAnother ==
    /\ decodeResult # NotCalled
    /\ decodeInput' \in DecodeInputs
    /\ decodeResult' = NotCalled

DecodeNext ==
    \/ DecodeCall
       /\ UNCHANGED << seqVars, ringVars, procVars, hookVars, streamVars, playVars, procHist >>
    \/ DecodeAnother
       /\ UNCHANGED << seqVars, ringVars, procVars, hookVars, streamVars, playVars, procHist >>

SpecDecode == DecodeInit /\ [][DecodeNext]_vars

(***************************************************************************)
(* Properties of the SequenceBuffer (under SpecSeq).                       *)
(***************************************************************************)
PushedSeqs == {pushLog[i].seq : i \in 1..Len(pushLog)}

\* the pushes since the reset are the sequence numbers 0..n-1, once each
PushedPermutation == PushedSeqs = 0..(Len(pushLog) - 1)

PayloadOfSeq(s) == pushLog[CHOOSE i \in 1..Len(pushLog) : pushLog[i].seq = s].data

\* sequence numbers pushed when nextSeq had already passed them
LateSeqs == {pushLog[i].seq : i \in {j \in 1..Len(pushLog) : pushLog[j].seq < pushLog[j].next}}

\* C1: when the sequence numbers 0..n-1 have been pushed once each, in any
\* order, into a fresh buffer, the lists returned by the pushes, concatenated,
\* are the payloads in sequence order 0, 1, ..., n-1.
C1_ReorderingCorrectness ==
    PushedPermutation =>
        released = [i \in 1..Len(pushLog) |-> PayloadOfSeq(i - 1)]

\* three fragments pushed last-first with two different payloads
C1_Witness ==
    /\ PushedPermutation
    /\ Len(pushLog) = 3
    /\ pushLog[1].seq = 2 /\ pushLog[2].seq = 1 /\ pushLog[3].seq = 0
    /\ pushLog[1].data # pushLog[3].data
    /\ Len(released) = 3

\* C6 as claimed: between resets nextSeq never decreases and every key of
\* pending is >= nextSeq.
C6_KeysNeverBelowNextSeq ==
    [][/\ pushLog' # << >> => seqBuffer'.nextSeq >= seqBuffer.nextSeq
       /\ \A k \in DOMAIN seqBuffer'.pending : k >= seqBuffer'.nextSeq]_vars

\* C6 as amended: between resets nextSeq never decreases, nextSeq is never a
\* key of pending, and a key below nextSeq is a sequence number that was
\* pushed after nextSeq had passed it.
C6_KeysAboveNextSeqOrLate ==
    [][/\ pushLog' # << >> => seqBuffer'.nextSeq >= seqBuffer.nextSeq
       /\ \A k \in DOMAIN seqBuffer'.pending :
              \/ k > seqBuffer'.nextSeq
              \/ k < seqBuffer'.nextSeq /\ k \in LateSeqs']_vars

\* a late key and a key still waiting, side by side
C6_Witness ==
    /\ seqBuffer.nextSeq = 2
    /\ 0 \in DOMAIN seqBuffer.pending
    /\ 3 \in DOMAIN seqBuffer.pending
    /\ 0 \in LateSeqs

DataOf(log) == [i \in 1..Len(log) |-> log[i].data]

\* the payloads pushed under s before nextSeq had passed it, in push order
PushedInTime(s) ==
    DataOf(SelectSeq(pushLog, LAMBDA e : e.seq = s /\ e.seq >= e.next))

\* the payloads pushed under s after nextSeq had passed it, in push order
PushedLate(s) ==
    DataOf(SelectSeq(pushLog, LAMBDA e : e.seq = s /\ e.seq < e.next))

RECURSIVE InTimeBelow(_)
\* the payloads pushed in time under 0, 1, ..., n-1, in that order
InTimeBelow(n) ==
    IF n = 0 THEN << >> ELSE InTimeBelow(n - 1) \o PushedInTime(n - 1)

\* C16: payloads pushed under the same sequence number are all kept, in
\* push order: what has been released is, for each drained sequence number
\* in ascending order, every payload pushed under it in push order, and a
\* sequence number still waiting holds every payload pushed under it.
C16_SameSeqConcatenated ==
    /\ released = InTimeBelow(seqBuffer.nextSeq)
    /\ \A k \in DOMAIN seqBuffer.pending :
           k > seqBuffer.nextSeq => seqBuffer.pending[k] = PushedInTime(k)

\* two different payloads pushed under 1, released together by the push of 0
C16_Witness ==
    /\ Len(pushLog) = 3
    /\ pushLog[1].seq = 1 /\ pushLog[2].seq = 1 /\ pushLog[3].seq = 0
    /\ pushLog[1].data # pushLog[2].data
    /\ released = << pushLog[3].data, pushLog[1].data, pushLog[2].data >>

\* the number of payloads pending holds
HeldCount(pending) ==
    Cardinality(UNION {{<< k, i >> : i \in 1..Len(pending[k])} : k \in DOMAIN pending})

\* C17: push never rejects input (every payload pushed is either held or
\* has been released), and a payload pushed under a sequence number below
\* nextSeq is stored under it and is not released by that push or by any
\* later one before the reset.
C17_LateStoredNeverReleased ==
    /\ Len(released) + HeldCount(seqBuffer.pending) = Len(pushLog)
    /\ \A k \in LateSeqs :
           /\ k < seqBuffer.nextSeq
           /\ k \in DOMAIN seqBuffer.pending
           /\ seqBuffer.pending[k] = PushedLate(k)
    /\ Len(released) = Len(InTimeBelow(seqBuffer.nextSeq))

\* 0 pushed again after it was drained, and 1 released after that
C17_Witness ==
    /\ Len(pushLog) = 3
    /\ pushLog[1].seq = 0 /\ pushLog[2].seq = 0 /\ pushLog[3].seq = 1
    /\ released = << pushLog[1].data, pushLog[3].data >>
    /\ seqBuffer.pending = (0 :> << pushLog[2].data >>)
    /\ pushLog[2].data # pushLog[1].data

RECURSIVE RunOf(_, _, _)
\* the lists stored[from], ..., stored[from + n - 1], concatenated
RunOf(stored, from, n) ==
    IF n = 0 THEN << >>
    ELSE RunOf(stored, from, n - 1) \o stored[from + n - 1]

\* C19: a push returns the payloads of the maximal run of consecutive
\* sequence numbers that starts at the nextSeq of before the call and is
\* present once the payload is stored, in ascending order; it advances
\* nextSeq by the length of the run and deletes the keys of the run; when
\* nextSeq is still missing it returns the empty list.
C19_PushReturnsMaximalRun ==
    [][Len(pushLog') = Len(pushLog) + 1 =>
           LET e == pushLog'[Len(pushLog')]
               old == seqBuffer.pending
               keys == DOMAIN old \cup {e.seq}
               stored == [k \in keys |->
                             IF k = e.seq
                             THEN (IF k \in DOMAIN old THEN old[k] ELSE << >>)
                                  \o << e.data >>
                             ELSE old[k]]
               run == CHOOSE n \in 0..Cardinality(keys) :
                          /\ \A i \in 0..(n - 1) : seqBuffer.nextSeq + i \in keys
                          /\ seqBuffer.nextSeq + n \notin keys
               ready == SubSeq(released', Len(released) + 1, Len(released'))
           IN  /\ SubSeq(released', 1, Len(released)) = released
               /\ ready = RunOf(stored, seqBuffer.nextSeq, run)
               /\ seqBuffer'.nextSeq = seqBuffer.nextSeq + run
               /\ seqBuffer'.pending =
                      [k \in keys \ (seqBuffer.nextSeq..(seqBuffer.nextSeq + run - 1))
                          |-> stored[k]]]_vars

\* pushes of 0, 2, 1: the third returns the payloads of 1 and 2
C19_Witness ==
    /\ Len(pushLog) = 3
    /\ pushLog[1].seq = 0 /\ pushLog[2].seq = 2 /\ pushLog[3].seq = 1
    /\ pushLog[3].next = 1
    /\ pushLog[2].data # pushLog[3].data
    /\ released = << pushLog[1].data, pushLog[3].data, pushLog[2].data >>
    /\ seqBuffer.nextSeq = 3

(***************************************************************************)
(* Properties of the RingBuffer (under SpecRing).                          *)
(***************************************************************************)
\* C3 as claimed: whenever the samples pushed are at least as many as the
\* frames pulled, the outputs of the pulls, concatenated, are the pushed
\* samples in the order of their push.
C3_FifoWhenTotalsSuffice ==
    Len(pushed) >= Len(pulled) => IsPrefix(pulled, pushed)

\* C3 as amended: when no pull has asked for more than was available at the
\* time of the call, the outputs of the pulls, concatenated, are the pushed
\* samples in the order of their push.
C3_FifoWhenNeverStarved ==
    ~starved => IsPrefix(pulled, pushed)

\* pulls interleaved with pushes, across a growth of wrapped storage
C3_Witness ==
    /\ ~starved
    /\ Len(pulled) >= 3
    /\ Len(pushed) > Len(pulled)
    /\ ringBuffer.capacity > InitialCapacity
    /\ ringBuffer.readIndex > 0
    /\ \E i \in 1..Len(pulled) : pulled[i] # pulled[1]

\* C5: 0 <= availableData <= capacity and
\* writeIndex = (readIndex + availableData) mod capacity in every state.
C5_RingInvariant ==
    /\ 0 <= ringBuffer.availableData
    /\ ringBuffer.availableData <= ringBuffer.capacity
    /\ ringBuffer.writeIndex =
           (ringBuffer.readIndex + ringBuffer.availableData) % ringBuffer.capacity

\* a grown buffer whose unread data wraps around the end of storage
C5_Witness ==
    /\ ringBuffer.capacity > InitialCapacity
    /\ ringBuffer.availableData > 1
    /\ ringBuffer.readIndex > 0
    /\ ringBuffer.writeIndex < ringBuffer.readIndex

\* C11: when blocks that together exceed the initial capacity have been
\* pushed, the buffer has grown, and all of them have been pulled (as many
\* frames pulled as samples pushed, nothing left unread), the outputs of
\* the pulls, concatenated, are exactly the pushed blocks, concatenated.
C11_GrowthPreservesOrder ==
    (/\ lastGrow.from > 0
     /\ Len(pushed) > InitialCapacity
     /\ ringBuffer.availableData = 0
     /\ Len(pulled) = Len(pushed))
    => pulled = pushed

\* everything pulled back after a growth that found the unread data wrapped
\* around the end of the storage
C11_Witness ==
    /\ lastGrow.wrapped
    /\ Len(pushed) > 2 * InitialCapacity
    /\ ringBuffer.availableData = 0
    /\ pulled = pushed
    /\ \E i \in 1..Len(pushed) : pushed[i] # pushed[1]

\* the samples pushed and not yet pulled, oldest first
Unread == SubSeq(pushed, Len(pushed) - ringBuffer.availableData + 1, Len(pushed))

\* C12: a pull on an output of k frames copies the n = min(k, available())
\* oldest unread samples to the first n frames, writes zero to the other
\* frames, decreases available() by n, and returns true iff n > 0.
C12_PullCopiesThenSilence ==
    [][Len(pulled') > Len(pulled) =>
           LET k == Len(pulled') - Len(pulled)
               n == IF k <= ringBuffer.availableData
                    THEN k ELSE ringBuffer.availableData
               out == SubSeq(pulled', Len(pulled) + 1, Len(pulled'))
           IN  /\ SubSeq(pulled', 1, Len(pulled)) = pulled
               /\ SubSeq(out, 1, n) = SubSeq(Unread, 1, n)
               /\ \A i \in (n + 1)..k : out[i] = 0
               /\ ringBuffer'.availableData = ringBuffer.availableData - n
               /\ pullReturned' = (n > 0)]_vars

\* a pull that ran out of samples half way, then a pull on an empty buffer
C12_Witness ==
    /\ ~pullReturned
    /\ Len(pushed) = 2
    /\ pulled = pushed \o << 0, 0, 0 >>
    /\ ringBuffer.availableData = 0

\* C20: capacity never decreases; a push of len samples leaves capacity and
\* readIndex as they are when availableData + len <= capacity, and
\* otherwise sets capacity to the smallest capacity * 2^k, k >= 1, that is
\* >= availableData + len, and readIndex to 0.
C20_CapacityDoublesToFit ==
    [][/\ ringBuffer'.capacity >= ringBuffer.capacity
       /\ Len(pushed') > Len(pushed) =>
              LET need == ringBuffer.availableData + Len(pushed') - Len(pushed)
              IN  IF need <= ringBuffer.capacity
                  THEN /\ ringBuffer'.capacity = ringBuffer.capacity
                       /\ ringBuffer'.readIndex = ringBuffer.readIndex
                  ELSE /\ \E k \in 1..need :
                              /\ ringBuffer'.capacity = ringBuffer.capacity * 2^k
                              /\ ringBuffer'.capacity >= need
                              /\ ringBuffer.capacity * 2^(k - 1) < need
                       /\ ringBuffer'.readIndex = 0]_vars

\* a single push that had to double the capacity twice
C20_Witness ==
    /\ lastGrow.from > 0
    /\ ringBuffer.capacity = 4 * lastGrow.from
    /\ ringBuffer.readIndex = 0
    /\ ringBuffer.availableData > 2 * lastGrow.from

\* the frames of s that are not silence
NonSilent(s) == SelectSeq(s, LAMBDA x : x # 0)

\* a step in which clear was called
RingClearStep ==
    /\ pushed' = << >> /\ pulled' = << >>
    /\ Len(pushed) >= Len(pushed') /\ Len(pulled) >= Len(pulled')
    /\ ringBuffer'.capacity = ringBuffer.capacity

\* C21: clear sets available() to 0 and leaves capacity and the storage as
\* they are; the pulls since the last clear return, apart from silence,
\* only samples pushed since that clear, oldest first, so that they return
\* nothing but silence until the next push and never a sample pushed before
\* the clear.
C21_ClearDiscardsWithoutReallocating ==
    [][/\ RingClearStep =>
              /\ ringBuffer'.availableData = 0
              /\ ringBuffer'.buffer = ringBuffer.buffer
       /\ NonSilent(pulled')
              = SubSeq(pushed', 1, Len(pushed') - ringBuffer'.availableData)]_vars

\* a grown buffer cleared with samples in its storage, then pulled from
C21_Witness ==
    /\ pushed = << >>
    /\ Len(pulled) >= 2
    /\ ringBuffer.capacity > InitialCapacity
    /\ \E i \in DOMAIN ringBuffer.buffer : ringBuffer.buffer[i] # 0
    /\ \A i \in 1..Len(pulled) : pulled[i] = 0

(***************************************************************************)
(* Properties of the AudioPlaybackProcessor (under SpecProcessor).         *)
(***************************************************************************)
\* C4: "ended" is posted only by a step that starts with streamComplete set
\* and leaves available() = 0; in particular a streamComplete message that
\* arrives with samples still buffered posts nothing, and neither does any
\* process() call that leaves samples in the ring buffer.
C4_EndedOnlyWhenDrained ==
    [][Len(toUI') > Len(toUI) =>
           /\ toUI' = Append(toUI, Msg("ended"))
           /\ isPlaying /\ streamComplete
           /\ ringBuffer'.availableData = 0]_vars

\* "ended" posted for a stream whose streamComplete message arrived with
\* more than one render quantum still buffered
C4_Witness ==
    /\ completeOver > Quantum
    /\ toUI = << Msg("ended") >>
    /\ ~isPlaying /\ ~streamComplete
    /\ ringBuffer.availableData = 0


(***************************************************************************)
(* Properties of the playbacks of the processor (under SpecEnded).         *)
(***************************************************************************)
\* C22: a step that posts "ended" posts exactly one, leaves isPlaying and
\* streamComplete both false, and happens only when an audio message and a
\* streamComplete message have both been received since "ended" was last
\* posted (or since construction): at most one "ended" per completed
\* playback.
C22_OneEndedPerPlayback ==
    [][PostsEnded =>
           /\ toUI' = Append(toUI, Msg("ended"))
           /\ ~isPlaying' /\ ~streamComplete'
           /\ sinceEnded = {"audio", "streamComplete"}]_vars

\* "ended" has just been posted for the second time
C22_Witness ==
    /\ endedPosts = 2
    /\ sinceEnded = {}
    /\ toUI = << Msg("ended") >>
    /\ ~isPlaying /\ ~streamComplete

(***************************************************************************)
(* Properties of the handlers of the processor (under SpecSteps).          *)
(***************************************************************************)
\* a step of the processor's handler `kind` that changes something
HandlerStep(kind) ==
    /\ lastStep' = kind
    /\ Len(toUI') >= Len(toUI)
    /\ vars' # vars

\* a render quantum of silence
Silence == [i \in 1..Quantum |-> 0]

\* C23: a call of process() on a processor that is not playing fills the
\* output channel with zeros, leaves the ring buffer (content, indices,
\* available count) and both flags as they were, and posts nothing; without
\* an output channel it changes nothing at all.
C23_IdleProcessWritesSilence ==
    [][/\ HandlerStep("process") /\ ~isPlaying =>
              /\ channel' = Silence
              /\ ringBuffer' = ringBuffer
              /\ streamComplete' = streamComplete
              /\ isPlaying' = isPlaying
              /\ toUI' = toUI
       /\ HandlerStep("processNoOutput") =>
              UNCHANGED << ringBuffer, isPlaying, streamComplete, channel, toUI >>]_vars

\* process() has just run on a processor that is not playing while samples
\* are buffered and streamComplete is set
C23_Witness ==
    /\ lastStep = "process"
    /\ ~isPlaying /\ streamComplete
    /\ ringBuffer.availableData > 0
    /\ \E i \in DOMAIN ringBuffer.buffer : ringBuffer.buffer[i] # 0
    /\ channel = Silence

\* the first n elements of s, followed by zeros up to length n
PadTo(s, n) == [i \in 1..n |-> IF i <= Len(s) THEN s[i] ELSE 0]

\* C24: while playing with streamComplete unset, a call of process() on an
\* empty ring buffer outputs silence, posts nothing and keeps playing; after
\* such a call an audio message appends its samples behind the unread ones
\* and sets isPlaying, and each call of process() while playing outputs the
\* oldest unread samples in order and removes them.
C24_StarvationNotTerminal ==
    [][/\ ( /\ HandlerStep("process")
            /\ isPlaying /\ ~streamComplete
            /\ ringBuffer.availableData = 0 ) =>
              /\ channel' = Silence
              /\ toUI' = toUI
              /\ isPlaying' /\ ~streamComplete'
              /\ ringBuffer'.availableData = 0
       /\ ( ranDry /\ HandlerStep("audio") ) =>
              /\ isPlaying'
              /\ IsPrefix(RingUnread(ringBuffer), RingUnread(ringBuffer'))
       /\ ( ranDry /\ HandlerStep("process") /\ isPlaying ) =>
              LET unread == RingUnread(ringBuffer)
                  n == Min(Quantum, Len(unread))
              IN  /\ channel' = PadTo(unread, Quantum)
                  /\ RingUnread(ringBuffer') = SubSeq(unread, n + 1, Len(unread))]_vars

\* after process() found the ring buffer empty mid-stream, samples arrived
\* and process() has just rendered a full quantum of them, still playing
C24_Witness ==
    /\ ranDry
    /\ lastStep = "process"
    /\ isPlaying /\ ~streamComplete
    /\ \A i \in DOMAIN channel : channel[i] # 0
    /\ ringBuffer.availableData > 0

\* C30: a stop message sets isPlaying and streamComplete to false and leaves
\* the ring buffer (content, indices, available count) as it was; a clear
\* message sets the same two flags to false and also sets readIndex,
\* writeIndex and availableData to 0.  Neither posts nor renders anything.
\* The samples that were unread at a stop stay ahead of everything pushed
\* later, so they are rendered first.
C30_StopKeepsBufferClearEmptiesIt ==
    [][/\ HandlerStep("stop") =>
              /\ ~isPlaying' /\ ~streamComplete'
              /\ ringBuffer' = ringBuffer
              /\ UNCHANGED << channel, toUI >>
       /\ HandlerStep("clear") =>
              /\ ~isPlaying' /\ ~streamComplete'
              /\ ringBuffer' = [ringBuffer EXCEPT !.readIndex = 0,
                                                  !.writeIndex = 0,
                                                  !.availableData = 0]
              /\ UNCHANGED << channel, toUI >>
       /\ IsPrefix(heldAtStop', RingUnread(ringBuffer'))]_vars

\* samples were buffered at a stop and the audio message that followed has
\* just put its samples behind them: the processor plays again with the
\* samples from before the stop first in line
C30_Witness ==
    /\ lastStep = "audio"
    /\ isPlaying
    /\ heldAtStop # << >>
    /\ Len(RingUnread(ringBuffer)) > Len(heldAtStop)
    /\ \A i \in 1..ringBuffer.availableData : RingUnread(ringBuffer)[i] # 0

(***************************************************************************)
(* Properties of the playback pipeline (under Spec).                       *)
(***************************************************************************)
\* the positions of the clear messages not yet delivered to the processor
ClearsInFlight == {i \in 1..Len(toWorklet) : toWorklet[i].type = "clear"}

\* the samples of the audio messages not yet delivered and posted after
\* every clear message
InFlightSamples ==
    LET from == IF ClearsInFlight = {} THEN 1
                ELSE 1 + CHOOSE i \in ClearsInFlight : \A j \in ClearsInFlight : j <= i
    IN  SamplesOf(SubSeq(toWorklet, from, Len(toWorklet)))

Decodes(b) == decodePCM16ToFloat32(b).ok

\* a step in which pushSequencedAudio reached the SequenceBuffer
SequencedPushStep ==
    /\ seqBuffer' # seqBuffer
    /\ seqBuffer' # SequenceBufferNew
    /\ lastPush' # << >>

\* C13: a fragment pushed through the hook with seq = 1 into a fresh
\* SequenceBuffer posts no audio message and leaves the playback state as
\* it is; the push of seq = 0 that follows posts the payload of seq 0 and
\* then the payload of seq 1 and sets the state to playing; and as long as
\* no fragment has been released since the last clear, nothing is on its
\* way to the worklet, buffered or rendered.
C13_HeldUntilSeqZero ==
    [][/\ (/\ SequencedPushStep
           /\ seqBuffer = SequenceBufferNew
           /\ lastPush'[1].seq = 1)
          => /\ toWorklet' = toWorklet
             /\ state' = state
             /\ arrived' = arrived
             /\ seqBuffer' = [pending |-> (1 :> << lastPush'[1].data >>), nextSeq |-> 0]
       /\ (/\ SequencedPushStep
           /\ seqBuffer.nextSeq = 0
           /\ DOMAIN seqBuffer.pending = {1}
           /\ Len(seqBuffer.pending[1]) = 1
           /\ lastPush'[1].seq = 0
           /\ Decodes(lastPush'[1].data)
           /\ Decodes(seqBuffer.pending[1][1]))
          => /\ toWorklet' = toWorklet
                    \o << AudioMsg(decodePCM16ToFloat32(lastPush'[1].data).samples),
                          AudioMsg(decodePCM16ToFloat32(seqBuffer.pending[1][1]).samples) >>
             /\ state' = "playing"
       /\ (arrived' = << >> /\ ClearsInFlight' = {})
          => /\ SamplesOf(toWorklet') = << >>
             /\ ringBuffer'.availableData = 0
             /\ rendered' = << >>]_vars

\* seq 1 held back, released behind seq 0, and both rendered in that order
C13_Witness ==
    /\ lastPush = << [seq |-> 0, data |-> PayloadB] >>
    /\ seqBuffer = [pending |-> << >>, nextSeq |-> 2]
    /\ arrived = << 2, 1 >>
    /\ rendered = << 2, 1 >>
    /\ state = "playing"

\* C14: the samples rendered, those waiting in the ring buffer and those
\* of the audio messages still on the port are, in that order, the samples
\* of the fragments in the order they were handed to the hook; while a
\* clear message is on the port, the fragments handed over since are the
\* audio messages behind it.
C14_RenderedInArrivalOrder ==
    arrived = IF ClearsInFlight = {}
              THEN rendered \o RingUnread(ringBuffer) \o InFlightSamples
              ELSE InFlightSamples

\* two fragments handed to pushAudio, rendered one after the other
C14_Witness ==
    /\ lastPush = << >>
    /\ arrived = << 2, 1 >>
    /\ rendered = << 2, 1 >>
    /\ toWorklet = << >>
    /\ ringBuffer.availableData = 0

\* a step in which clear was called on a hook that has its worklet
ClearStep ==
    /\ Len(toWorklet') = Len(toWorklet) + 1
    /\ toWorklet'[Len(toWorklet')].type = "clear"

\* C18: a call of clear, on its own or at the start of streamVoiceResponse,
\* leaves the SequenceBuffer with pending empty and nextSeq = 0; before
\* the worklet exists the SequenceBuffer is in that state anyway; and a
\* push of seq 0 into a SequenceBuffer in that state posts its own payload
\* at once, and nothing else.
C18_ClearResetsSequenceBuffer ==
    [][/\ (ClearStep \/ pc' # pc) =>
              /\ seqBuffer' = [pending |-> << >>, nextSeq |-> 0]
              /\ state' = "idle"
       /\ ~readyRef' => seqBuffer' = [pending |-> << >>, nextSeq |-> 0]
       /\ (/\ SequencedPushStep
           /\ seqBuffer = [pending |-> << >>, nextSeq |-> 0]
           /\ lastPush'[1].seq = 0
           /\ Decodes(lastPush'[1].data))
          => /\ toWorklet' = Append(toWorklet,
                     AudioMsg(decodePCM16ToFloat32(lastPush'[1].data).samples))
             /\ seqBuffer' = [pending |-> << >>, nextSeq |-> 1]]_vars

\* a fragment held back when clear was called, and seq 0 released after it
C18_Witness ==
    /\ dropped > 0
    /\ lastPush = << [seq |-> 0, data |-> PayloadB] >>
    /\ seqBuffer = [pending |-> << >>, nextSeq |-> 1]
    /\ arrived = << 2 >>

\* C25: the state of the hook starts at idle and is only ever idle or
\* playing; a step from idle to playing posts at least one message to the
\* worklet and all it posts are audio messages; a step from playing to idle
\* either receives an "ended" message or is a clear(), which posts a clear
\* message.
C25_StateIdleOrPlaying ==
    /\ state = "idle"
    /\ [][/\ state' \in {"idle", "playing"}
          /\ (state = "idle" /\ state' = "playing") =>
                 /\ Len(toWorklet') > Len(toWorklet)
                 /\ IsPrefix(toWorklet, toWorklet')
                 /\ \A i \in Len(toWorklet) + 1 .. Len(toWorklet') :
                        toWorklet'[i].type = "audio"
          /\ (state = "playing" /\ state' = "idle") =>
                 \/ /\ toUI # << >>
                    /\ Head(toUI).type = "ended"
                    /\ toUI' = Tail(toUI)
                    /\ toWorklet' = toWorklet
                 \/ /\ toWorklet' = Append(toWorklet, Msg("clear"))
                    /\ toUI' = toUI]_vars

\* audio was pushed and rendered, the "ended" message was received, and the
\* state is back to idle with nothing in flight
C25_Witness ==
    /\ state = "idle"
    /\ readyRef
    /\ toWorklet = << >> /\ toUI = << >>
    /\ rendered # << >>
    /\ ~isPlaying

\* C28: whenever no message is in flight in either direction, the state of
\* the hook is idle only if the processor is not playing.  Stated for the
\* states reached without a sequenced push since the last clear(), where
\* every audio message posted has set the state to playing.
C28_IdleImpliesNotPlaying ==
    (toWorklet = << >> /\ toUI = << >> /\ state = "idle" /\ lastPush = << >>)
        => ~isPlaying

(***************************************************************************)
(* Properties of decodePCM16ToFloat32 (under SpecDecode).                  *)
(***************************************************************************)
\* the call returned the samples v / Scale of the integers v of the payload
DecodedExactly ==
    /\ decodeResult.ok
    /\ decodeResult.error = "none"
    /\ Len(decodeResult.samples) = Len(decodeInput.ints)
    /\ \A i \in 1..Len(decodeInput.ints) :
           /\ decodeResult.samples[i] = decodeInput.ints[i]
           /\ -Scale <= decodeResult.samples[i]
           /\ decodeResult.samples[i] < Scale

\* C26 as stated: for every well-formed base64 payload the call returns
\* one sample v / 32768 per 16-bit integer v of the payload, each in [-1, 1).
C26_DecodesEveryWellFormedPayload ==
    (decodeResult # NotCalled /\ decodeInput.wellFormed) => DecodedExactly

\* C26: for every well-formed base64 payload of an even number of bytes the
\* call returns one sample v / 32768 per 16-bit little-endian signed integer
\* v of the payload, each in [-1, 1); for a well-formed payload of an odd
\* number of bytes it throws a RangeError; the call changes nothing else.
C26_DecodesWholeInt16Payloads ==
    /\ [](decodeResult # NotCalled /\ decodeInput.wellFormed =>
              IF decodeInput.odd
              THEN ~decodeResult.ok /\ decodeResult.error = "RangeError"
              ELSE DecodedExactly)
    /\ [][(decodeResult = NotCalled /\ decodeResult' # NotCalled) =>
              UNCHANGED << seqVars, ringVars, procVars, hookVars, streamVars,
                           playVars, procHist, decodeInput >>]_vars

\* the call has returned the lowest and the highest sample
C26_Witness ==
    /\ decodeResult # NotCalled
    /\ decodeInput.wellFormed /\ ~decodeInput.odd
    /\ decodeInput.ints = << -32768, 32767 >>
    /\ decodeResult.ok
    /\ decodeResult.samples = << -Scale, Scale - 1 >>

(***************************************************************************)
(* Liveness of the playback pipeline (under SpecLive).                     *)
(***************************************************************************)
\* C27: once the processor is playing with streamComplete set it eventually
\* stops playing, and the step that stops it either posts "ended" or
\* receives a clear or stop message; every "ended" posted is eventually
\* followed by the state idle of the hook.  This holds wherever the
\* streamComplete message falls among the audio messages' deliveries and the
\* calls of process(), the ring buffer being empty or not when it arrives.
C27_CompletedPlaybackEnds ==
    /\ (isPlaying /\ streamComplete) ~> ~isPlaying
    /\ [][(isPlaying /\ streamComplete /\ ~isPlaying') =>
              \/ toUI' = Append(toUI, Msg("ended"))
              \/ /\ toWorklet # << >>
                 /\ Head(toWorklet).type \in {"clear", "stop"}
                 /\ toWorklet' = Tail(toWorklet)]_vars
    /\ (toUI # << >>) ~> (state = "idle")

\* the streamComplete message was delivered after process() had already
\* rendered everything pushed, and the next process() has posted "ended",
\* which the hook has not handled yet
C27_Witness ==
    /\ toUI = << Msg("ended") >>
    /\ ~isPlaying /\ ~streamComplete
    /\ state = "playing"
    /\ rendered # << >>
    /\ rendered = arrived
    /\ channel = Silence

(***************************************************************************)
(* Properties of streamVoiceResponse (under SpecStream).                   *)
(***************************************************************************)
\* the event of a line the server wrote, when it is a well-formed record
LineEvent(line) == JsonParse(SubSeq(line, Len(Prefix) + 1, Len(line))).event

IsRecord(line) ==
    StartsWithPrefix(line) /\ JsonParse(SubSeq(line, Len(Prefix) + 1, Len(line))).ok

IsRecordOfType(line, type) == IsRecord(line) /\ LineEvent(line).type = type

\* a record whose JSON cannot be parsed
IsMalformed(line) == StartsWithPrefix(line) /\ ~IsRecord(line)

\* an audio record whose payload is not the base64 of 16-bit samples
IsUndecodableAudio(line) ==
    IsRecordOfType(line, "audio") /\ LineEvent(line).data \in {PayloadBad, PayloadOdd}

\* the entries of calls made while line number r was processed
CallsOf(r) == {i \in 1..Len(calls) : calls[i].rec = r}

CallsNamed(fn) == {i \in 1..Len(calls) : calls[i].fn = fn}

\* what the dispatch table of the stream does for a record of each type
DispatchedAs(type) ==
    CASE type = "user_transcript" -> {"onUserTranscript"}
      [] type = "transcript" -> {"onTranscript"}
      [] type = "audio" -> {"postAudio", "onError"}
      [] type = "done" -> {"onComplete"}
      [] type = "error" -> {"onError"}
      [] OTHER -> {}

\* every well-formed record after line r that the loop has gone through was
\* dispatched
LaterRecordsDispatched(r) ==
    \A r2 \in (r + 1)..linesSeen :
        IsRecord(sent[r2]) =>
            \E i \in CallsOf(r2) : calls[i].fn \in DispatchedAs(LineEvent(sent[r2]).type)

\* the audio messages on the port are those the history records
AudioMessagesRecorded ==
    Cardinality({i \in 1..Len(toWorklet) : toWorklet[i].type = "audio"})
        = Cardinality(CallsNamed("postAudio"))

\* C2: the audio messages posted for records that carry sequence numbers
\* are posted in non-decreasing sequence-number order.
C2_AudioPostedInSeqOrder ==
    \A i, j \in CallsNamed("postAudio") :
        (/\ i < j
         /\ LineEvent(sent[calls[i].rec]).seq # NoSeq
         /\ LineEvent(sent[calls[j].rec]).seq # NoSeq)
        => LineEvent(sent[calls[i].rec]).seq <= LineEvent(sent[calls[j].rec]).seq

RECURSIVE TranscriptUpTo(_)
\* the deltas of the transcript records among the first r lines, in order
TranscriptUpTo(r) ==
    IF r = 0 THEN << >>
    ELSE TranscriptUpTo(r - 1)
             \o (IF IsRecordOfType(sent[r], "transcript")
                 THEN LineEvent(sent[r]).data ELSE << >>)

\* what a history entry for a posted message says was posted
PostedType(c) == IF c.fn = "postAudio" THEN "audio" ELSE "streamComplete"

\* the messages posted to the worklet after the clear of the start are
\* those of the history, in its order
PostsRecorded ==
    LET posts == SelectSeq(calls, LAMBDA c : c.fn \in {"postAudio", "postStreamComplete"})
    IN  /\ Len(toWorklet) = Len(posts) + 1
        /\ \A i \in 1..Len(posts) : toWorklet[i + 1].type = PostedType(posts[i])

\* C15: for a done record, streamComplete is posted to the worklet after
\* the audio message of every earlier audio record, and then onComplete is
\* invoked, once, with the deltas of all transcript records received so
\* far, concatenated in arrival order; each transcript record is forwarded
\* to onTranscript with its delta and the running total.
C15_DoneCompletesWithTranscript ==
    /\ pc # "idle" => PostsRecorded
    /\ \A r \in 1..linesSeen :
           /\ IsRecordOfType(sent[r], "done") =>
                  \E i, j \in CallsOf(r) :
                      /\ CallsOf(r) = {i, j}
                      /\ i < j
                      /\ calls[i].fn = "postStreamComplete"
                      /\ calls[j].fn = "onComplete"
                      /\ calls[j].full = TranscriptUpTo(r)
                      /\ \A a \in CallsNamed("postAudio") : calls[a].rec < r => a < i
           /\ IsRecordOfType(sent[r], "transcript") =>
                  \E i \in CallsOf(r) :
                      /\ CallsOf(r) = {i}
                      /\ calls[i].fn = "onTranscript"
                      /\ calls[i].arg = LineEvent(sent[r]).data
                      /\ calls[i].full = TranscriptUpTo(r)

\* an audio record, a transcript record, then the done record
C15_Witness ==
    /\ linesSeen = 3
    /\ IsRecordOfType(sent[1], "audio")
    /\ IsRecordOfType(sent[2], "transcript")
    /\ IsRecordOfType(sent[3], "done")
    /\ Len(toWorklet) = 3
    /\ toWorklet[2].type = "audio" /\ toWorklet[3].type = "streamComplete"
    /\ calls[Len(calls)] = Call("onComplete", 3, << >>, LineEvent(sent[2]).data)

\* C7: an error record invokes onError and ends the processing of the
\* stream: nothing is dispatched for any later line.
C7_ErrorRecordStopsStream ==
    \A r \in 1..linesSeen :
        IsRecordOfType(sent[r], "error") =>
            /\ \E i \in CallsOf(r) : calls[i].fn = "onError"
            /\ \A i \in 1..Len(calls) : calls[i].rec <= r

\* C8: a response that is not ok, or has no body, is reported through
\* onError exactly once.
C8_TransportErrorSurfacedOnce ==
    response \in {"notOk", "noBody"} => Cardinality(CallsNamed("onError")) = 1

\* C9: a record whose JSON cannot be parsed triggers no callback and no
\* audio message, and every later well-formed record is still dispatched.
C9_MalformedRecordDropped ==
    /\ AudioMessagesRecorded
    /\ \A r \in 1..linesSeen :
           IsMalformed(sent[r]) => CallsOf(r) = {} /\ LaterRecordsDispatched(r)

\* a record cut short, then an audio record that is posted
C9_Witness ==
    /\ linesSeen = 2
    /\ IsMalformed(sent[1])
    /\ IsRecordOfType(sent[2], "audio")
    /\ Len(calls) = 1
    /\ calls[1].fn = "postAudio" /\ calls[1].rec = 2
    /\ Len(toWorklet) = 2 /\ toWorklet[2] = AudioMsg(<< 1 >>)

\* C10 as claimed: an audio record whose payload fails to decode is skipped
\* like a malformed record: no audio message, no callback, and the later
\* records are still dispatched.
C10_DecodeErrorSkippedSilently ==
    /\ AudioMessagesRecorded
    /\ \A r \in 1..linesSeen :
           IsUndecodableAudio(sent[r]) => CallsOf(r) = {} /\ LaterRecordsDispatched(r)

\* C10 as amended: an audio record whose payload fails to decode posts no
\* audio message and the later records are still dispatched, but it is
\* reported: onError is invoked once, with the exception of the decoder.
C10_DecodeErrorReportedAndSkipped ==
    /\ AudioMessagesRecorded
    /\ \A r \in 1..linesSeen :
           IsUndecodableAudio(sent[r]) =>
               /\ \E i \in CallsOf(r) :
                      /\ CallsOf(r) = {i}
                      /\ calls[i].fn = "onError"
                      /\ calls[i].arg = << "InvalidCharacter" >>
               /\ LaterRecordsDispatched(r)

\* an undecodable audio record, then an audio record that is posted
C10_Witness ==
    /\ linesSeen = 2
    /\ IsUndecodableAudio(sent[1])
    /\ IsRecordOfType(sent[2], "audio")
    /\ Len(calls) = 2
    /\ calls[1].fn = "onError" /\ calls[1].rec = 1
    /\ calls[2].fn = "postAudio" /\ calls[2].rec = 2
    /\ Len(toWorklet) = 2 /\ toWorklet[2].type = "audio"
\* the playback hook as streamVoiceResponse leaves it before the request
StartOfStream ==
    [h |-> HookClear(HookInitCall([toWorklet |-> << >>, state |-> "idle",
                                   seqBuffer |-> SequenceBufferNew,
                                   readyRef |-> FALSE])),
     fullTranscript |-> << >>, calls |-> << >>, linesSeen |-> 0]

RECURSIVE Terminated(_)
\* the text of lines written each with its newline
Terminated(lines) ==
    IF lines = << >> THEN << >>
    ELSE Head(lines) \o << "\n" >> \o Terminated(Tail(lines))

\* the part of the response body the reader has been handed so far
BodyRead ==
    LET body == Terminated(sent) \o cutShort
    IN  SubSeq(body, 1, Len(body) - Len(wire))

\* C29: however the body read so far was cut into chunks, the loop has
\* dispatched what one pass over the same text as a single chunk dispatches
\* (same callbacks with the same arguments in the same order, same messages
\* posted to the worklet, same transcript) and holds the same remainder; when
\* the call returns, the remainder is the text the server wrote after its
\* last newline, and no call was made for it.
C29_ChunkingDoesNotMatter ==
    pc \in {"streaming", "resolved"} =>
        LET whole == ReadLoopBody(StartOfStream, << >>, BodyRead)
        IN  /\ calls = whole.st.calls
            /\ fullTranscript = whole.st.fullTranscript
            /\ toWorklet = whole.st.h.toWorklet
            /\ state = whole.st.h.state
            /\ seqBuffer = whole.st.h.seqBuffer
            /\ lineBuffer = whole.buffer
            /\ linesSeen = whole.st.linesSeen
            /\ pc = "resolved" =>
                   /\ lineBuffer = cutShort
                   /\ linesSeen = Len(sent)
                   /\ \A i \in 1..Len(calls) : calls[i].rec <= Len(sent)

\* a chunk has ended in the middle of a record, after an earlier record was
\* dispatched, and the server has ended the response with a record that
\* lacks its newline
C29_Witness ==
    /\ pc = "streaming"
    /\ calls # << >>
    /\ lineBuffer = Prefix \o << "{transcript:b" >>
    /\ serverClosed
    /\ cutShort # << >>
    /\ wire = << "}", "\n" >> \o cutShort

=============================================================================
